---- MODULE Spec2Model ----
(***************************************************************************)
(* The builtin-definition synthesizer of compiler/can/src/builtins.rs.     *)
(*                                                                         *)
(* builtin_defs_map(symbol, var_store) builds the canonical definition of  *)
(* one builtin from low-level opcode calls and control flow, minting its   *)
(* type variables from the compilation's VarStore.  Every synthesizer of   *)
(* the file is an operator here; it returns the definition together with   *)
(* the store it leaves behind ([def |-> ..., var_store |-> ...]).          *)
(*                                                                         *)
(* Trees are records tagged by k (the Expr / Pattern variant), fields      *)
(* named as in the source.  Located values are [region, value] records.    *)
(***************************************************************************)
EXTENDS Integers, Sequences, FiniteSets, TLC

(***************************************************************************)
(* Bounds of the model.                                                    *)
(***************************************************************************)
\* The dispatcher is called while the store stands at MaxStart or below.
MaxStart == 9
\* A definition is run if the store stood at MaxRunStart or below when it
\* was synthesized.
MaxRunStart == 4
\* Longest list handed to a synthesized definition when it is run.
MaxListLen == 2
\* The elements of those lists range over 0 .. MaxElem.
MaxElem == 1
\* Numbers handed to a synthesized definition range over -MaxNum .. MaxNum.
MaxNum == 2

(***************************************************************************)
(* Symbols (roc_module::symbol::Symbol) by module: the Symbol:: constants  *)
(* builtins.rs names.  Beside the keys of the dispatch table (lines        *)
(* 51-192) a module holds the names of the helper closures and             *)
(* let-bindings its synthesizers create.                                   *)
(***************************************************************************)
BoolSymbols == {"BOOL_EQ", "BOOL_NEQ", "BOOL_AND", "BOOL_OR", "BOOL_NOT"}

StrSymbols ==
    {"STR_CONCAT", "STR_JOIN_WITH", "STR_SPLIT", "STR_IS_EMPTY", "STR_STARTS_WITH",
     "STR_STARTS_WITH_CODE_PT", "STR_ENDS_WITH", "STR_COUNT_GRAPHEMES", "STR_FROM_INT",
     "STR_FROM_UTF8", "STR_FROM_UTF8_RANGE", "STR_TO_UTF8", "STR_FROM_FLOAT",
     "STR_REPEAT", "STR_TRIM"}

ListSymbols ==
    {"LIST_LEN", "LIST_GET", "LIST_SET", "LIST_APPEND", "LIST_FIRST", "LIST_LAST",
     "LIST_IS_EMPTY", "LIST_SINGLE", "LIST_REPEAT", "LIST_REVERSE", "LIST_CONCAT",
     "LIST_CONTAINS", "LIST_MIN", "LIST_MAX", "LIST_SUM", "LIST_PRODUCT",
     "LIST_PREPEND", "LIST_JOIN", "LIST_JOIN_MAP", "LIST_MAP", "LIST_MAP2",
     "LIST_MAP3", "LIST_MAP4", "LIST_TAKE_FIRST", "LIST_TAKE_LAST", "LIST_DROP",
     "LIST_DROP_AT", "LIST_DROP_FIRST", "LIST_DROP_LAST", "LIST_SWAP",
     "LIST_MAP_WITH_INDEX", "LIST_KEEP_IF", "LIST_KEEP_OKS", "LIST_KEEP_ERRS",
     "LIST_RANGE", "LIST_WALK", "LIST_WALK_BACKWARDS", "LIST_WALK_UNTIL",
     "LIST_SORT_WITH", "LIST_ANY", "LIST_FIND",
     \* internal names
     "LIST_JOIN_MAP_CONCAT", "LIST_MIN_LT", "LIST_MAX_GT", "LIST_SUM_ADD",
     "LIST_PRODUCT_MUL", "LIST_FIND_RESULT"}

DictSymbols ==
    {"DICT_LEN", "DICT_EMPTY", "DICT_SINGLE", "DICT_INSERT", "DICT_REMOVE", "DICT_GET",
     "DICT_CONTAINS", "DICT_KEYS", "DICT_VALUES", "DICT_UNION", "DICT_INTERSECTION",
     "DICT_DIFFERENCE", "DICT_WALK",
     \* internal names
     "DICT_GET_RESULT"}

SetSymbols ==
    {"SET_EMPTY", "SET_LEN", "SET_SINGLE", "SET_UNION", "SET_INTERSECTION",
     "SET_DIFFERENCE", "SET_TO_LIST", "SET_FROM_LIST", "SET_INSERT", "SET_REMOVE",
     "SET_CONTAINS", "SET_WALK",
     \* internal names
     "SET_WALK_USER_FUNCTION"}

NumSymbols ==
    {"NUM_ADD", "NUM_ADD_CHECKED", "NUM_ADD_WRAP", "NUM_SUB", "NUM_SUB_WRAP",
     "NUM_SUB_CHECKED", "NUM_MUL", "NUM_MUL_WRAP", "NUM_MUL_CHECKED", "NUM_GT",
     "NUM_GTE", "NUM_LT", "NUM_LTE", "NUM_COMPARE", "NUM_SIN", "NUM_COS", "NUM_TAN",
     "NUM_DIV_FLOAT", "NUM_DIV_INT", "NUM_DIV_CEIL", "NUM_ABS", "NUM_NEG", "NUM_REM",
     "NUM_IS_MULTIPLE_OF", "NUM_SQRT", "NUM_LOG", "NUM_ROUND", "NUM_IS_ODD",
     "NUM_IS_EVEN", "NUM_IS_ZERO", "NUM_IS_POSITIVE", "NUM_IS_NEGATIVE",
     "NUM_TO_FLOAT", "NUM_POW", "NUM_CEILING", "NUM_POW_INT", "NUM_FLOOR", "NUM_ATAN",
     "NUM_ACOS", "NUM_ASIN", "NUM_BYTES_TO_U16", "NUM_BYTES_TO_U32", "NUM_MAX_INT",
     "NUM_MIN_INT", "NUM_BITWISE_AND", "NUM_BITWISE_XOR", "NUM_BITWISE_OR",
     "NUM_SHIFT_LEFT", "NUM_SHIFT_RIGHT", "NUM_SHIFT_RIGHT_ZERO_FILL", "NUM_INT_CAST",
     "NUM_MAX_I128"}

ResultSymbols == {"RESULT_MAP", "RESULT_MAP_ERR", "RESULT_AFTER", "RESULT_WITH_DEFAULT"}

\* Identities of a user module: not builtins.
UserSymbols == {"USER_MAIN", "USER_HELPER"}

\* The module-internal names: builtin identities without a dispatch arm.
HelperSymbols ==
    {"LIST_JOIN_MAP_CONCAT", "LIST_MIN_LT", "LIST_MAX_GT", "LIST_SUM_ADD",
     "LIST_PRODUCT_MUL", "LIST_FIND_RESULT", "DICT_GET_RESULT", "SET_WALK_USER_FUNCTION"}

BuiltinSymbols ==
    BoolSymbols \cup StrSymbols \cup ListSymbols \cup DictSymbols \cup SetSymbols
        \cup NumSymbols \cup ResultSymbols

Symbol == BuiltinSymbols \cup UserSymbols

\* The identities with an arm in the dispatch table.
DispatchKeys == BuiltinSymbols \ HelperSymbols

\* Symbol::is_builtin: the identity belongs to one of the builtin modules.
is_builtin(symbol) == symbol \in BuiltinSymbols

(***************************************************************************)
(* Type variables (roc_types::subs).  The reserved handles lie below the   *)
(* first handle a VarStore issues.                                         *)
(***************************************************************************)
Variable_EMPTY_RECORD == 1
Variable_NATURAL == 2
Variable_NAT == 3
ReservedVariables == {Variable_EMPTY_RECORD, Variable_NATURAL, Variable_NAT}
FIRST_USER_SPACE_VAR == 4

\* VarStore::fresh returns the store's next handle and advances the store by
\* one: the n-th fresh() on a store standing at var_store returns
\* fresh(var_store, n), and n calls leave the store at store_after(var_store, n).
fresh(var_store, n) == var_store + (n - 1)
store_after(var_store, n) == var_store + n

(***************************************************************************)
(* Option, Located, literals.                                              *)
(***************************************************************************)
None == [some |-> FALSE]
Some(value) == [some |-> TRUE, value |-> value]

Region_zero == [start_line |-> 0, end_line |-> 0, start_col |-> 0, end_col |-> 0]

\* no_region / Located::at_zero
no_region(value) == [region |-> Region_zero, value |-> value]

\* Numbers of the literal's width (i128, i64, f64) are kept in decimal: a
\* sign, the integer digits and the fraction digits (none for an integer),
\* leading digit first.
DecDigits(n) == IF n < 10 THEN <<n>> ELSE <<n \div 10, n % 10>>
\* an integer literal of the source text
Lit(n) == [neg |-> n < 0, digits |-> DecDigits(IF n < 0 THEN -n ELSE n), frac |-> <<>>]
\* a float literal n.0 of the source text
Flt(n) == [neg |-> n < 0, digits |-> DecDigits(IF n < 0 THEN -n ELSE n), frac |-> <<0>>]
i64_MAX ==
    [neg |-> FALSE, digits |-> <<9,2,2,3,3,7,2,0,3,6,8,5,4,7,7,5,8,0,7>>, frac |-> <<>>]
i64_MIN ==
    [neg |-> TRUE, digits |-> <<9,2,2,3,3,7,2,0,3,6,8,5,4,7,7,5,8,0,8>>, frac |-> <<>>]
i128_MAX ==
    [neg |-> FALSE,
     digits |-> <<1,7,0,1,4,1,1,8,3,4,6,0,4,6,9,2,3,1,7,3,1,6,8,7,3,0,3,7,1,5,8,8,4,1,0,5,7,2,7>>,
     frac |-> <<>>]

DigitChar == <<"0", "1", "2", "3", "4", "5", "6", "7", "8", "9">>
RECURSIVE DigitsToString(_)
DigitsToString(ds) ==
    IF ds = <<>> THEN "" ELSE DigitChar[Head(ds) + 1] \o DigitsToString(Tail(ds))

\* ToString::to_string of a number: the sign, the integer digits, and the
\* fraction only when it is not zero (0.0 prints as "0").
to_string(x) ==
    (IF x.neg THEN "-" ELSE "") \o DigitsToString(x.digits)
        \o (IF \A j \in 1..Len(x.frac) : x.frac[j] = 0
            THEN ""
            ELSE "." \o DigitsToString(x.frac))

(***************************************************************************)
(* Expr and Pattern variants with positional fields, and the constructors  *)
(* at the end of builtins.rs.  Variants with named fields are written as   *)
(* records where they are built.                                           *)
(***************************************************************************)
Var(symbol) == [k |-> "Var", symbol |-> symbol]
EmptyRecord == [k |-> "EmptyRecord"]
Identifier(symbol) == [k |-> "Identifier", symbol |-> symbol]
Underscore == [k |-> "Underscore"]
Global(name) == [k |-> "Global", name |-> name]

\* Call(Box<(fn_var, loc_expr, closure_var, ret_var)>, args, called_via)
Call(fn, args, called_via) ==
    [k |-> "Call", fn |-> fn, args |-> args, called_via |-> called_via]

LetNonRec(def, cont, var) == [k |-> "LetNonRec", def |-> def, cont |-> cont, var |-> var]

int(num_var, precision_var, i) ==
    [k |-> "Int", num_var |-> num_var, precision_var |-> precision_var,
     str |-> to_string(i), i |-> i]

float(num_var, precision_var, f) ==
    [k |-> "Float", num_var |-> num_var, precision_var |-> precision_var,
     str |-> to_string(f), f |-> f]

num(num_var, i) == [k |-> "Num", num_var |-> num_var, str |-> to_string(i), i |-> i]

\* A faulty tag, kept for comparison: the extension slot reuses the variant's
\* variable instead of a variable of its own.
tag_shared_ext(name, args, var_store) ==
    [expr |->
        [k |-> "Tag",
         variant_var |-> fresh(var_store, 1),
         ext_var |-> fresh(var_store, 1),
         name |-> Global(name),
         arguments |->
            [j \in 1..Len(args) |-> <<fresh(var_store, 2 + j), no_region(args[j])>>]],
     var_store |-> store_after(var_store, 2 + Len(args))]

\* tag(name, args, var_store): mints variant_var, ext_var, then one variable
\* per argument, in that order.
tag(name, args, var_store) ==
    [expr |->
        [k |-> "Tag",
         variant_var |-> fresh(var_store, 1),
         ext_var |-> fresh(var_store, 2),
         name |-> Global(name),
         arguments |->
            [j \in 1..Len(args) |-> <<fresh(var_store, 2 + j), no_region(args[j])>>]],
     var_store |-> store_after(var_store, 2 + Len(args))]

\* A faulty defn_help, kept for comparison: the function type comes from a
\* store of its own (VarStore::default()) instead of the caller's.
defn_help_own_store(fn_name, args, var_store, body, ret_var) ==
    [expr |->
        [k |-> "Closure",
         function_type |-> fresh(FIRST_USER_SPACE_VAR, 1),
         closure_type |-> fresh(var_store, 1),
         closure_ext_var |-> fresh(var_store, 2),
         return_type |-> ret_var,
         name |-> fn_name,
         captured_symbols |-> <<>>,
         recursive |-> "NotRecursive",
         arguments |->
            [j \in 1..Len(args) |-> <<args[j][1], no_region(Identifier(args[j][2]))>>],
         loc_body |-> no_region(body)],
     var_store |-> store_after(var_store, 2)]

defn_help(fn_name, args, var_store, body, ret_var) ==
    [expr |->
        [k |-> "Closure",
         function_type |-> fresh(var_store, 1),
         closure_type |-> fresh(var_store, 2),
         closure_ext_var |-> fresh(var_store, 3),
         return_type |-> ret_var,
         name |-> fn_name,
         captured_symbols |-> <<>>,
         recursive |-> "NotRecursive",
         arguments |->
            [j \in 1..Len(args) |-> <<args[j][1], no_region(Identifier(args[j][2]))>>],
         loc_body |-> no_region(body)],
     var_store |-> store_after(var_store, 3)]

\* A faulty defn, kept for comparison: the definition's own variable comes
\* from a store of its own (VarStore::default()) instead of the caller's.
defn_own_store(fn_name, args, var_store, body, ret_var) ==
    LET expr == defn_help(fn_name, args, var_store, body, ret_var)
    IN [def |->
            [loc_pattern |-> no_region(Identifier(fn_name)),
             loc_expr |-> no_region(expr.expr),
             expr_var |-> fresh(FIRST_USER_SPACE_VAR, 1),
             pattern_vars |-> <<>>,
             annotation |-> None],
        var_store |-> expr.var_store]

defn(fn_name, args, var_store, body, ret_var) ==
    LET expr == defn_help(fn_name, args, var_store, body, ret_var)
    IN [def |->
            [loc_pattern |-> no_region(Identifier(fn_name)),
             loc_expr |-> no_region(expr.expr),
             expr_var |-> fresh(expr.var_store, 1),
             pattern_vars |-> <<>>,
             annotation |-> None],
        var_store |-> store_after(expr.var_store, 1)]

(***************************************************************************)
(* The pre-solved signature table (roc_builtins::std::types) and           *)
(* roc_types::solved_types::to_type, as far as Num.maxI128 uses them: the  *)
(* table holds the closed signature I128, and converting a signature       *)
(* without type variables mints nothing.                                   *)
(***************************************************************************)
std_types(symbol) ==
    IF symbol = "NUM_MAX_I128" THEN Some([solved |-> "I128"]) ELSE None

to_type(solved, var_store) == [type |-> solved, var_store |-> var_store]

(***************************************************************************)
(* The synthesizers, in source order.  A one-line synthesizer that only    *)
(* forwards to lowlevel_N, num_binop or num_num_other_binop is unfolded    *)
(* at its arm of the dispatch table.                                       *)
(***************************************************************************)
\* lowlevel_1  (lines 196-213)
lowlevel_1(symbol, op, var_store) ==
    LET arg1_var == fresh(var_store, 1)
        ret_var == fresh(var_store, 2)
        body == [
            k |-> "RunLowLevel",
            op |-> op,
            args |-> << <<arg1_var, Var("ARG_1")>> >>,
            ret_var |-> ret_var]
    IN defn(symbol, << <<arg1_var, "ARG_1">> >>, store_after(var_store, 2), body, ret_var)

\* A faulty lowlevel_2, kept for comparison: the primitive receives the two
\* parameters in the other order.
lowlevel_2_swapped(symbol, op, var_store) ==
    LET arg1_var == fresh(var_store, 1)
        arg2_var == fresh(var_store, 2)
        ret_var == fresh(var_store, 3)
        body == [
            k |-> "RunLowLevel",
            op |-> op,
            args |-> << <<arg2_var, Var("ARG_2")>>, <<arg1_var, Var("ARG_1")>> >>,
            ret_var |-> ret_var]
    IN defn(
        symbol,
        << <<arg1_var, "ARG_1">>, <<arg2_var, "ARG_2">> >>,
        store_after(var_store, 3),
        body,
        ret_var)

\* lowlevel_2  (lines 215-236)
lowlevel_2(symbol, op, var_store) ==
    LET arg1_var == fresh(var_store, 1)
        arg2_var == fresh(var_store, 2)
        ret_var == fresh(var_store, 3)
        body == [
            k |-> "RunLowLevel",
            op |-> op,
            args |-> << <<arg1_var, Var("ARG_1")>>, <<arg2_var, Var("ARG_2")>> >>,
            ret_var |-> ret_var]
    IN defn(
        symbol,
        << <<arg1_var, "ARG_1">>, <<arg2_var, "ARG_2">> >>,
        store_after(var_store, 3),
        body,
        ret_var)

\* lowlevel_3  (lines 238-265)
lowlevel_3(symbol, op, var_store) ==
    LET arg1_var == fresh(var_store, 1)
        arg2_var == fresh(var_store, 2)
        arg3_var == fresh(var_store, 3)
        ret_var == fresh(var_store, 4)
        body == [
            k |-> "RunLowLevel",
            op |-> op,
            args |-> <<
                <<arg1_var, Var("ARG_1")>>,
                <<arg2_var, Var("ARG_2")>>,
                <<arg3_var, Var("ARG_3")>> >>,
            ret_var |-> ret_var]
    IN defn(
        symbol,
        << <<arg1_var, "ARG_1">>, <<arg2_var, "ARG_2">>, <<arg3_var, "ARG_3">> >>,
        store_after(var_store, 4),
        body,
        ret_var)

\* lowlevel_4  (lines 267-297)
lowlevel_4(symbol, op, var_store) ==
    LET arg1_var == fresh(var_store, 1)
        arg2_var == fresh(var_store, 2)
        arg3_var == fresh(var_store, 3)
        arg4_var == fresh(var_store, 4)
        ret_var == fresh(var_store, 5)
        body == [
            k |-> "RunLowLevel",
            op |-> op,
            args |-> <<
                <<arg1_var, Var("ARG_1")>>,
                <<arg2_var, Var("ARG_2")>>,
                <<arg3_var, Var("ARG_3")>>,
                <<arg4_var, Var("ARG_4")>> >>,
            ret_var |-> ret_var]
    IN defn(
        symbol,
        <<
            <<arg1_var, "ARG_1">>,
            <<arg2_var, "ARG_2">>,
            <<arg3_var, "ARG_3">>,
            <<arg4_var, "ARG_4">> >>,
        store_after(var_store, 5),
        body,
        ret_var)

\* lowlevel_5  (lines 299-332)
lowlevel_5(symbol, op, var_store) ==
    LET arg1_var == fresh(var_store, 1)
        arg2_var == fresh(var_store, 2)
        arg3_var == fresh(var_store, 3)
        arg4_var == fresh(var_store, 4)
        arg5_var == fresh(var_store, 5)
        ret_var == fresh(var_store, 6)
        body == [
            k |-> "RunLowLevel",
            op |-> op,
            args |-> <<
                <<arg1_var, Var("ARG_1")>>,
                <<arg2_var, Var("ARG_2")>>,
                <<arg3_var, Var("ARG_3")>>,
                <<arg4_var, Var("ARG_4")>>,
                <<arg5_var, Var("ARG_5")>> >>,
            ret_var |-> ret_var]
    IN defn(
        symbol,
        <<
            <<arg1_var, "ARG_1">>,
            <<arg2_var, "ARG_2">>,
            <<arg3_var, "ARG_3">>,
            <<arg4_var, "ARG_4">>,
            <<arg5_var, "ARG_5">> >>,
        store_after(var_store, 6),
        body,
        ret_var)

\* num_max_int  (lines 335-347)
num_max_int(symbol, var_store) ==
    LET int_var == fresh(var_store, 1)
        int_precision_var == fresh(var_store, 2)
        body == int(int_var, int_precision_var, i64_MAX)
    IN [
        def |-> [
            annotation |-> None,
            expr_var |-> int_var,
            loc_expr |-> no_region(body),
            loc_pattern |-> no_region(Identifier(symbol)),
            pattern_vars |-> <<>>],
        var_store |-> store_after(var_store, 2)]

\* num_min_int  (lines 350-362)
num_min_int(symbol, var_store) ==
    LET int_var == fresh(var_store, 1)
        int_precision_var == fresh(var_store, 2)
        body == int(int_var, int_precision_var, i64_MIN)
    IN [
        def |-> [
            annotation |-> None,
            expr_var |-> int_var,
            loc_expr |-> no_region(body),
            loc_pattern |-> no_region(Identifier(symbol)),
            pattern_vars |-> <<>>],
        var_store |-> store_after(var_store, 2)]

\* bool_eq  (lines 365-381)
bool_eq(symbol, var_store) ==
    LET arg_var == fresh(var_store, 1)
        bool_var == fresh(var_store, 2)
        body == [
            k |-> "RunLowLevel",
            op |-> "Eq",
            args |-> << <<arg_var, Var("ARG_1")>>, <<arg_var, Var("ARG_2")>> >>,
            ret_var |-> bool_var]
    IN defn(
        symbol,
        << <<arg_var, "ARG_1">>, <<arg_var, "ARG_2">> >>,
        store_after(var_store, 2),
        body,
        bool_var)

\* bool_neq  (lines 384-400)
bool_neq(symbol, var_store) ==
    LET arg_var == fresh(var_store, 1)
        bool_var == fresh(var_store, 2)
        body == [
            k |-> "RunLowLevel",
            op |-> "NotEq",
            args |-> << <<arg_var, Var("ARG_1")>>, <<arg_var, Var("ARG_2")>> >>,
            ret_var |-> bool_var]
    IN defn(
        symbol,
        << <<arg_var, "ARG_1">>, <<arg_var, "ARG_2">> >>,
        store_after(var_store, 2),
        body,
        bool_var)

\* bool_or  (lines 403-421)
bool_or(symbol, var_store) ==
    LET bool_var == fresh(var_store, 1)
        body == [
            k |-> "RunLowLevel",
            op |-> "Or",
            args |-> << <<bool_var, Var("ARG_1")>>, <<bool_var, Var("ARG_2")>> >>,
            ret_var |-> bool_var]
    IN defn(
        symbol,
        << <<bool_var, "ARG_1">>, <<bool_var, "ARG_2">> >>,
        store_after(var_store, 1),
        body,
        bool_var)

\* bool_not  (lines 424-439)
bool_not(symbol, var_store) ==
    LET bool_var == fresh(var_store, 1)
        body == [
            k |-> "RunLowLevel",
            op |-> "Not",
            args |-> << <<bool_var, Var("ARG_1")>> >>,
            ret_var |-> bool_var]
    IN defn(symbol, << <<bool_var, "ARG_1">> >>, store_after(var_store, 1), body, bool_var)

\* bool_and  (lines 442-460)
bool_and(symbol, var_store) ==
    LET bool_var == fresh(var_store, 1)
        body == [
            k |-> "RunLowLevel",
            op |-> "And",
            args |-> << <<bool_var, Var("ARG_1")>>, <<bool_var, Var("ARG_2")>> >>,
            ret_var |-> fresh(var_store, 2)]
    IN defn(
        symbol,
        << <<bool_var, "ARG_1">>, <<bool_var, "ARG_2">> >>,
        store_after(var_store, 2),
        body,
        bool_var)

\* num_binop  (lines 463-478)
num_binop(symbol, var_store, op) ==
    LET num_var == fresh(var_store, 1)
        body == [
            k |-> "RunLowLevel",
            op |-> op,
            args |-> << <<num_var, Var("ARG_1")>>, <<num_var, Var("ARG_2")>> >>,
            ret_var |-> num_var]
    IN defn(
        symbol,
        << <<num_var, "ARG_1">>, <<num_var, "ARG_2">> >>,
        store_after(var_store, 1),
        body,
        num_var)

\* A faulty num_num_other_binop, kept for comparison: the result shares the
\* operands' variable, as in num_binop.
num_num_other_binop_one_var(symbol, var_store, op) ==
    LET num_var == fresh(var_store, 1)
        body == [
            k |-> "RunLowLevel",
            op |-> op,
            args |-> << <<num_var, Var("ARG_1")>>, <<num_var, Var("ARG_2")>> >>,
            ret_var |-> num_var]
    IN defn(
        symbol,
        << <<num_var, "ARG_1">>, <<num_var, "ARG_2">> >>,
        store_after(var_store, 1),
        body,
        num_var)

\* num_num_other_binop  (lines 481-497)
num_num_other_binop(symbol, var_store, op) ==
    LET num_var == fresh(var_store, 1)
        bool_var == fresh(var_store, 2)
        body == [
            k |-> "RunLowLevel",
            op |-> op,
            args |-> << <<num_var, Var("ARG_1")>>, <<num_var, Var("ARG_2")>> >>,
            ret_var |-> bool_var]
    IN defn(
        symbol,
        << <<num_var, "ARG_1">>, <<num_var, "ARG_2">> >>,
        store_after(var_store, 2),
        body,
        bool_var)

\* A faulty num_overflow_checked, kept for comparison: the branches are in
\* the order of the other wrappers, Ok first.
num_overflow_checked_swapped(symbol, var_store, lowlevel) ==
    LET bool_var == fresh(var_store, 1)
        num_var_1 == fresh(var_store, 2)
        num_var_2 == fresh(var_store, 3)
        num_var_3 == fresh(var_store, 4)
        ret_var == fresh(var_store, 5)
        record_var == fresh(var_store, 6)
        tag_Overflow == tag("Overflow", <<>>, store_after(var_store, 8))
        tag_Err == tag("Err", <<tag_Overflow.expr>>, tag_Overflow.var_store)
        tag_Ok == tag(
            "Ok",
            <<[
                k |-> "Access",
                record_var |-> record_var,
                ext_var |-> fresh(tag_Err.var_store, 1),
                field |-> "a",
                field_var |-> num_var_3,
                loc_expr |-> no_region(Var("ARG_3"))]>>,
            store_after(tag_Err.var_store, 1))
        cont == [
            k |-> "If",
            branch_var |-> ret_var,
            cond_var |-> bool_var,
            branches |-> << <<
                no_region([
                    k |-> "Access",
                    record_var |-> record_var,
                    ext_var |-> fresh(var_store, 7),
                    field |-> "b",
                    field_var |-> fresh(var_store, 8),
                    loc_expr |-> no_region(Var("ARG_3"))]),
                no_region(tag_Ok.expr)>> >>,
            final_else |-> no_region(tag_Err.expr)]
        def == [
            loc_pattern |-> no_region(Identifier("ARG_3")),
            loc_expr |-> no_region([
                k |-> "RunLowLevel",
                op |-> lowlevel,
                args |-> << <<num_var_1, Var("ARG_1")>>, <<num_var_2, Var("ARG_2")>> >>,
                ret_var |-> record_var]),
            expr_var |-> record_var,
            pattern_vars |-> <<>>,
            annotation |-> None]
        body == LetNonRec(def, no_region(cont), ret_var)
    IN defn(
        symbol,
        << <<num_var_1, "ARG_1">>, <<num_var_2, "ARG_2">> >>,
        tag_Ok.var_store,
        body,
        ret_var)

\* num_overflow_checked  (lines 509-595)
num_overflow_checked(symbol, var_store, lowlevel) ==
    LET bool_var == fresh(var_store, 1)
        num_var_1 == fresh(var_store, 2)
        num_var_2 == fresh(var_store, 3)
        num_var_3 == fresh(var_store, 4)
        ret_var == fresh(var_store, 5)
        record_var == fresh(var_store, 6)
        tag_Overflow == tag("Overflow", <<>>, store_after(var_store, 8))
        tag_Err == tag("Err", <<tag_Overflow.expr>>, tag_Overflow.var_store)
        tag_Ok == tag(
            "Ok",
            <<[
                k |-> "Access",
                record_var |-> record_var,
                ext_var |-> fresh(tag_Err.var_store, 1),
                field |-> "a",
                field_var |-> num_var_3,
                loc_expr |-> no_region(Var("ARG_3"))]>>,
            store_after(tag_Err.var_store, 1))
        cont == [
            k |-> "If",
            branch_var |-> ret_var,
            cond_var |-> bool_var,
            branches |-> << <<
                no_region([
                    k |-> "Access",
                    record_var |-> record_var,
                    ext_var |-> fresh(var_store, 7),
                    field |-> "b",
                    field_var |-> fresh(var_store, 8),
                    loc_expr |-> no_region(Var("ARG_3"))]),
                no_region(tag_Err.expr)>> >>,
            final_else |-> no_region(tag_Ok.expr)]
        def == [
            loc_pattern |-> no_region(Identifier("ARG_3")),
            loc_expr |-> no_region([
                k |-> "RunLowLevel",
                op |-> lowlevel,
                args |-> << <<num_var_1, Var("ARG_1")>>, <<num_var_2, Var("ARG_2")>> >>,
                ret_var |-> record_var]),
            expr_var |-> record_var,
            pattern_vars |-> <<>>,
            annotation |-> None]
        body == LetNonRec(def, no_region(cont), ret_var)
    IN defn(
        symbol,
        << <<num_var_1, "ARG_1">>, <<num_var_2, "ARG_2">> >>,
        tag_Ok.var_store,
        body,
        ret_var)

\* num_add_checked  (lines 598-600)
num_add_checked(symbol, var_store) ==
    num_overflow_checked(symbol, var_store, "NumAddChecked")

\* num_sub_checked  (lines 613-615)
num_sub_checked(symbol, var_store) ==
    num_overflow_checked(symbol, var_store, "NumSubChecked")

\* num_mul_checked  (lines 628-630)
num_mul_checked(symbol, var_store) ==
    num_overflow_checked(symbol, var_store, "NumMulChecked")

\* num_sin  (lines 658-673)
num_sin(symbol, var_store) ==
    LET float_var == fresh(var_store, 1)
        body == [
            k |-> "RunLowLevel",
            op |-> "NumSin",
            args |-> << <<float_var, Var("ARG_1")>> >>,
            ret_var |-> float_var]
    IN defn(
        symbol,
        << <<float_var, "ARG_1">> >>,
        store_after(var_store, 1),
        body,
        float_var)

\* num_cos  (lines 676-691)
num_cos(symbol, var_store) ==
    LET float_var == fresh(var_store, 1)
        body == [
            k |-> "RunLowLevel",
            op |-> "NumCos",
            args |-> << <<float_var, Var("ARG_1")>> >>,
            ret_var |-> float_var]
    IN defn(
        symbol,
        << <<float_var, "ARG_1">> >>,
        store_after(var_store, 1),
        body,
        float_var)

\* num_tan  (lines 694-726)
num_tan(symbol, var_store) ==
    LET float_var == fresh(var_store, 1)
        body == [
            k |-> "RunLowLevel",
            op |-> "NumDivUnchecked",
            args |-> <<
                <<
                    float_var,
                    [
                        k |-> "RunLowLevel",
                        op |-> "NumSin",
                        args |-> << <<float_var, Var("ARG_1")>> >>,
                        ret_var |-> float_var]>>,
                <<
                    float_var,
                    [
                        k |-> "RunLowLevel",
                        op |-> "NumCos",
                        args |-> << <<float_var, Var("ARG_1")>> >>,
                        ret_var |-> float_var]>> >>,
            ret_var |-> float_var]
    IN defn(
        symbol,
        << <<float_var, "ARG_1">> >>,
        store_after(var_store, 1),
        body,
        float_var)

\* num_is_zero  (lines 729-750)
num_is_zero(symbol, var_store) ==
    LET arg_var == fresh(var_store, 1)
        bool_var == fresh(var_store, 2)
        unbound_zero_var == fresh(var_store, 3)
        body == [
            k |-> "RunLowLevel",
            op |-> "Eq",
            args |-> <<
                <<arg_var, Var("ARG_1")>>,
                <<arg_var, num(unbound_zero_var, Lit(0))>> >>,
            ret_var |-> bool_var]
    IN defn(symbol, << <<arg_var, "ARG_1">> >>, store_after(var_store, 3), body, bool_var)

\* num_is_negative  (lines 753-774)
num_is_negative(symbol, var_store) ==
    LET arg_var == fresh(var_store, 1)
        bool_var == fresh(var_store, 2)
        unbound_zero_var == fresh(var_store, 3)
        body == [
            k |-> "RunLowLevel",
            op |-> "NumGt",
            args |-> <<
                <<arg_var, num(unbound_zero_var, Lit(0))>>,
                <<arg_var, Var("ARG_1")>> >>,
            ret_var |-> bool_var]
    IN defn(symbol, << <<arg_var, "ARG_1">> >>, store_after(var_store, 3), body, bool_var)

\* num_is_positive  (lines 777-798)
num_is_positive(symbol, var_store) ==
    LET arg_var == fresh(var_store, 1)
        bool_var == fresh(var_store, 2)
        unbound_zero_var == fresh(var_store, 3)
        body == [
            k |-> "RunLowLevel",
            op |-> "NumGt",
            args |-> <<
                <<arg_var, Var("ARG_1")>>,
                <<arg_var, num(unbound_zero_var, Lit(0))>> >>,
            ret_var |-> bool_var]
    IN defn(symbol, << <<arg_var, "ARG_1">> >>, store_after(var_store, 3), body, bool_var)

\* num_is_odd  (lines 801-832)
num_is_odd(symbol, var_store) ==
    LET arg_var == fresh(var_store, 1)
        bool_var == fresh(var_store, 2)
        unbound_two_var == fresh(var_store, 3)
        body == [
            k |-> "RunLowLevel",
            op |-> "Eq",
            args |-> <<
                <<arg_var, int(fresh(var_store, 4), fresh(var_store, 5), Lit(1))>>,
                <<
                    arg_var,
                    [
                        k |-> "RunLowLevel",
                        op |-> "NumRemUnchecked",
                        args |-> <<
                            <<arg_var, Var("ARG_1")>>,
                            <<arg_var, num(unbound_two_var, Lit(2))>> >>,
                        ret_var |-> arg_var]>> >>,
            ret_var |-> bool_var]
    IN defn(symbol, << <<arg_var, "ARG_1">> >>, store_after(var_store, 5), body, bool_var)

\* num_is_even  (lines 835-866)
num_is_even(symbol, var_store) ==
    LET arg_var == fresh(var_store, 1)
        arg_num_var == fresh(var_store, 2)
        bool_var == fresh(var_store, 3)
        body == [
            k |-> "RunLowLevel",
            op |-> "Eq",
            args |-> <<
                <<arg_var, num(arg_num_var, Lit(0))>>,
                <<
                    arg_var,
                    [
                        k |-> "RunLowLevel",
                        op |-> "NumRemUnchecked",
                        args |-> <<
                            <<arg_var, Var("ARG_1")>>,
                            <<arg_var, num(arg_num_var, Lit(2))>> >>,
                        ret_var |-> arg_var]>> >>,
            ret_var |-> bool_var]
    IN defn(symbol, << <<arg_var, "ARG_1">> >>, store_after(var_store, 3), body, bool_var)

\* num_to_float  (lines 869-886)
num_to_float(symbol, var_store) ==
    LET arg_var == fresh(var_store, 1)
        float_var == fresh(var_store, 2)
        body == [
            k |-> "RunLowLevel",
            op |-> "NumToFloat",
            args |-> << <<arg_var, Var("ARG_1")>> >>,
            ret_var |-> float_var]
    IN defn(symbol, << <<arg_var, "ARG_1">> >>, store_after(var_store, 2), body, float_var)

\* A faulty num_sqrt, kept for comparison: the guard rejects zero.
num_sqrt_rejects_zero(symbol, var_store) ==
    LET bool_var == fresh(var_store, 1)
        float_var == fresh(var_store, 2)
        unbound_zero_var == fresh(var_store, 3)
        precision_var == fresh(var_store, 4)
        ret_var == fresh(var_store, 5)
        tag_Ok == tag(
            "Ok",
            <<[
                k |-> "RunLowLevel",
                op |-> "NumSqrtUnchecked",
                args |-> << <<float_var, Var("ARG_1")>> >>,
                ret_var |-> float_var]>>,
            store_after(var_store, 5))
        tag_SqrtOfNegative == tag("SqrtOfNegative", <<>>, tag_Ok.var_store)
        tag_Err == tag("Err", <<tag_SqrtOfNegative.expr>>, tag_SqrtOfNegative.var_store)
        body == [
            k |-> "If",
            branch_var |-> ret_var,
            cond_var |-> bool_var,
            branches |-> << <<
                no_region([
                    k |-> "RunLowLevel",
                    op |-> "NumGt",
                    args |-> <<
                        <<float_var, Var("ARG_1")>>,
                        <<float_var, float(unbound_zero_var, precision_var, Flt(0))>> >>,
                    ret_var |-> bool_var]),
                no_region(tag_Ok.expr)>> >>,
            final_else |-> no_region(tag_Err.expr)]
    IN defn(symbol, << <<float_var, "ARG_1">> >>, tag_Err.var_store, body, ret_var)

\* num_sqrt  (lines 889-932)
num_sqrt(symbol, var_store) ==
    LET bool_var == fresh(var_store, 1)
        float_var == fresh(var_store, 2)
        unbound_zero_var == fresh(var_store, 3)
        precision_var == fresh(var_store, 4)
        ret_var == fresh(var_store, 5)
        tag_Ok == tag(
            "Ok",
            <<[
                k |-> "RunLowLevel",
                op |-> "NumSqrtUnchecked",
                args |-> << <<float_var, Var("ARG_1")>> >>,
                ret_var |-> float_var]>>,
            store_after(var_store, 5))
        tag_SqrtOfNegative == tag("SqrtOfNegative", <<>>, tag_Ok.var_store)
        tag_Err == tag("Err", <<tag_SqrtOfNegative.expr>>, tag_SqrtOfNegative.var_store)
        body == [
            k |-> "If",
            branch_var |-> ret_var,
            cond_var |-> bool_var,
            branches |-> << <<
                no_region([
                    k |-> "RunLowLevel",
                    op |-> "NumGte",
                    args |-> <<
                        <<float_var, Var("ARG_1")>>,
                        <<float_var, float(unbound_zero_var, precision_var, Flt(0))>> >>,
                    ret_var |-> bool_var]),
                no_region(tag_Ok.expr)>> >>,
            final_else |-> no_region(tag_Err.expr)]
    IN defn(symbol, << <<float_var, "ARG_1">> >>, tag_Err.var_store, body, ret_var)

\* A faulty num_log, kept for comparison: the guard admits zero.
num_log_accepts_zero(symbol, var_store) ==
    LET bool_var == fresh(var_store, 1)
        float_var == fresh(var_store, 2)
        unbound_zero_var == fresh(var_store, 3)
        precision_var == fresh(var_store, 4)
        ret_var == fresh(var_store, 5)
        tag_Ok == tag(
            "Ok",
            <<[
                k |-> "RunLowLevel",
                op |-> "NumLogUnchecked",
                args |-> << <<float_var, Var("ARG_1")>> >>,
                ret_var |-> float_var]>>,
            store_after(var_store, 5))
        tag_LogNeedsPositive == tag("LogNeedsPositive", <<>>, tag_Ok.var_store)
        tag_Err == tag("Err", <<tag_LogNeedsPositive.expr>>, tag_LogNeedsPositive.var_store)
        body == [
            k |-> "If",
            branch_var |-> ret_var,
            cond_var |-> bool_var,
            branches |-> << <<
                no_region([
                    k |-> "RunLowLevel",
                    op |-> "NumGte",
                    args |-> <<
                        <<float_var, Var("ARG_1")>>,
                        <<float_var, float(unbound_zero_var, precision_var, Flt(0))>> >>,
                    ret_var |-> bool_var]),
                no_region(tag_Ok.expr)>> >>,
            final_else |-> no_region(tag_Err.expr)]
    IN defn(symbol, << <<float_var, "ARG_1">> >>, tag_Err.var_store, body, ret_var)

\* num_log  (lines 935-978)
num_log(symbol, var_store) ==
    LET bool_var == fresh(var_store, 1)
        float_var == fresh(var_store, 2)
        unbound_zero_var == fresh(var_store, 3)
        precision_var == fresh(var_store, 4)
        ret_var == fresh(var_store, 5)
        tag_Ok == tag(
            "Ok",
            <<[
                k |-> "RunLowLevel",
                op |-> "NumLogUnchecked",
                args |-> << <<float_var, Var("ARG_1")>> >>,
                ret_var |-> float_var]>>,
            store_after(var_store, 5))
        tag_LogNeedsPositive == tag("LogNeedsPositive", <<>>, tag_Ok.var_store)
        tag_Err == tag("Err", <<tag_LogNeedsPositive.expr>>, tag_LogNeedsPositive.var_store)
        body == [
            k |-> "If",
            branch_var |-> ret_var,
            cond_var |-> bool_var,
            branches |-> << <<
                no_region([
                    k |-> "RunLowLevel",
                    op |-> "NumGt",
                    args |-> <<
                        <<float_var, Var("ARG_1")>>,
                        <<float_var, float(unbound_zero_var, precision_var, Flt(0))>> >>,
                    ret_var |-> bool_var]),
                no_region(tag_Ok.expr)>> >>,
            final_else |-> no_region(tag_Err.expr)]
    IN defn(symbol, << <<float_var, "ARG_1">> >>, tag_Err.var_store, body, ret_var)

\* num_round  (lines 981-998)
num_round(symbol, var_store) ==
    LET float_var == fresh(var_store, 1)
        int_var == fresh(var_store, 2)
        body == [
            k |-> "RunLowLevel",
            op |-> "NumRound",
            args |-> << <<float_var, Var("ARG_1")>> >>,
            ret_var |-> int_var]
    IN defn(symbol, << <<float_var, "ARG_1">> >>, store_after(var_store, 2), body, int_var)

\* num_pow  (lines 1001-1020)
num_pow(symbol, var_store) ==
    LET float_var == fresh(var_store, 1)
        body == [
            k |-> "RunLowLevel",
            op |-> "NumPow",
            args |-> << <<float_var, Var("ARG_1")>>, <<float_var, Var("ARG_2")>> >>,
            ret_var |-> float_var]
    IN defn(
        symbol,
        << <<float_var, "ARG_1">>, <<float_var, "ARG_2">> >>,
        store_after(var_store, 1),
        body,
        float_var)

\* num_ceiling  (lines 1023-1040)
num_ceiling(symbol, var_store) ==
    LET float_var == fresh(var_store, 1)
        int_var == fresh(var_store, 2)
        body == [
            k |-> "RunLowLevel",
            op |-> "NumCeiling",
            args |-> << <<float_var, Var("ARG_1")>> >>,
            ret_var |-> int_var]
    IN defn(symbol, << <<float_var, "ARG_1">> >>, store_after(var_store, 2), body, int_var)

\* num_pow_int  (lines 1043-1059)
num_pow_int(symbol, var_store) ==
    LET int_var == fresh(var_store, 1)
        body == [
            k |-> "RunLowLevel",
            op |-> "NumPowInt",
            args |-> << <<int_var, Var("ARG_1")>>, <<int_var, Var("ARG_2")>> >>,
            ret_var |-> int_var]
    IN defn(
        symbol,
        << <<int_var, "ARG_1">>, <<int_var, "ARG_2">> >>,
        store_after(var_store, 1),
        body,
        int_var)

\* num_floor  (lines 1062-1079)
num_floor(symbol, var_store) ==
    LET float_var == fresh(var_store, 1)
        int_var == fresh(var_store, 2)
        body == [
            k |-> "RunLowLevel",
            op |-> "NumFloor",
            args |-> << <<float_var, Var("ARG_1")>> >>,
            ret_var |-> int_var]
    IN defn(symbol, << <<float_var, "ARG_1">> >>, store_after(var_store, 2), body, int_var)

\* num_atan  (lines 1082-1099)
num_atan(symbol, var_store) ==
    LET arg_float_var == fresh(var_store, 1)
        ret_float_var == fresh(var_store, 2)
        body == [
            k |-> "RunLowLevel",
            op |-> "NumAtan",
            args |-> << <<arg_float_var, Var("ARG_1")>> >>,
            ret_var |-> ret_float_var]
    IN defn(
        symbol,
        << <<arg_float_var, "ARG_1">> >>,
        store_after(var_store, 2),
        body,
        ret_float_var)

\* num_acos  (lines 1102-1119)
num_acos(symbol, var_store) ==
    LET arg_float_var == fresh(var_store, 1)
        ret_float_var == fresh(var_store, 2)
        body == [
            k |-> "RunLowLevel",
            op |-> "NumAcos",
            args |-> << <<arg_float_var, Var("ARG_1")>> >>,
            ret_var |-> ret_float_var]
    IN defn(
        symbol,
        << <<arg_float_var, "ARG_1">> >>,
        store_after(var_store, 2),
        body,
        ret_float_var)

\* num_asin  (lines 1122-1139)
num_asin(symbol, var_store) ==
    LET arg_float_var == fresh(var_store, 1)
        ret_float_var == fresh(var_store, 2)
        body == [
            k |-> "RunLowLevel",
            op |-> "NumAsin",
            args |-> << <<arg_float_var, Var("ARG_1")>> >>,
            ret_var |-> ret_float_var]
    IN defn(
        symbol,
        << <<arg_float_var, "ARG_1">> >>,
        store_after(var_store, 2),
        body,
        ret_float_var)

\* A faulty num_bytes_to, kept for comparison: the guard leaves the width of
\* the decoded number out of the bound.
num_bytes_to_no_offset(symbol, var_store, offset, low_level) ==
    LET len_var == fresh(var_store, 1)
        list_var == fresh(var_store, 2)
        elem_var == fresh(var_store, 3)
        ret_var == fresh(var_store, 4)
        bool_var == fresh(var_store, 5)
        add_var == fresh(var_store, 6)
        cast_var == fresh(var_store, 7)
        tag_Ok == tag(
            "Ok",
            <<[
                k |-> "RunLowLevel",
                op |-> low_level,
                args |-> << <<list_var, Var("ARG_1")>>, <<len_var, Var("ARG_2")>> >>,
                ret_var |-> elem_var]>>,
            store_after(var_store, 9))
        tag_OutOfBounds == tag("OutOfBounds", <<>>, tag_Ok.var_store)
        tag_Err == tag("Err", <<tag_OutOfBounds.expr>>, tag_OutOfBounds.var_store)
        body == [
            k |-> "If",
            cond_var |-> bool_var,
            branch_var |-> fresh(var_store, 8),
            branches |-> << <<
                no_region([
                    k |-> "RunLowLevel",
                    op |-> "NumLt",
                    args |-> <<
                        <<
                            len_var,
                            [
                                k |-> "RunLowLevel",
                                op |-> "NumAdd",
                                args |-> <<
                                    <<add_var, Var("ARG_2")>>,
                                    <<
                                        add_var,
                                        [
                                            k |-> "RunLowLevel",
                                            ret_var |-> cast_var,
                                            args |-> << <<
                                                cast_var,
                                                num(fresh(var_store, 9), Lit(0))>> >>,
                                            op |-> "NumIntCast"]>> >>,
                                ret_var |-> add_var]>>,
                        <<
                            len_var,
                            [
                                k |-> "RunLowLevel",
                                op |-> "ListLen",
                                args |-> << <<list_var, Var("ARG_1")>> >>,
                                ret_var |-> len_var]>> >>,
                    ret_var |-> bool_var]),
                no_region(tag_Ok.expr)>> >>,
            final_else |-> no_region(tag_Err.expr)]
    IN defn(
        symbol,
        << <<list_var, "ARG_1">>, <<len_var, "ARG_2">> >>,
        tag_Err.var_store,
        body,
        ret_var)

\* num_bytes_to  (lines 4090-4178)
num_bytes_to(symbol, var_store, offset, low_level) ==
    LET len_var == fresh(var_store, 1)
        list_var == fresh(var_store, 2)
        elem_var == fresh(var_store, 3)
        ret_var == fresh(var_store, 4)
        bool_var == fresh(var_store, 5)
        add_var == fresh(var_store, 6)
        cast_var == fresh(var_store, 7)
        tag_Ok == tag(
            "Ok",
            <<[
                k |-> "RunLowLevel",
                op |-> low_level,
                args |-> << <<list_var, Var("ARG_1")>>, <<len_var, Var("ARG_2")>> >>,
                ret_var |-> elem_var]>>,
            store_after(var_store, 9))
        tag_OutOfBounds == tag("OutOfBounds", <<>>, tag_Ok.var_store)
        tag_Err == tag("Err", <<tag_OutOfBounds.expr>>, tag_OutOfBounds.var_store)
        body == [
            k |-> "If",
            cond_var |-> bool_var,
            branch_var |-> fresh(var_store, 8),
            branches |-> << <<
                no_region([
                    k |-> "RunLowLevel",
                    op |-> "NumLt",
                    args |-> <<
                        <<
                            len_var,
                            [
                                k |-> "RunLowLevel",
                                op |-> "NumAdd",
                                args |-> <<
                                    <<add_var, Var("ARG_2")>>,
                                    <<
                                        add_var,
                                        [
                                            k |-> "RunLowLevel",
                                            ret_var |-> cast_var,
                                            args |-> << <<
                                                cast_var,
                                                num(fresh(var_store, 9), offset)>> >>,
                                            op |-> "NumIntCast"]>> >>,
                                ret_var |-> add_var]>>,
                        <<
                            len_var,
                            [
                                k |-> "RunLowLevel",
                                op |-> "ListLen",
                                args |-> << <<list_var, Var("ARG_1")>> >>,
                                ret_var |-> len_var]>> >>,
                    ret_var |-> bool_var]),
                no_region(tag_Ok.expr)>> >>,
            final_else |-> no_region(tag_Err.expr)]
    IN defn(
        symbol,
        << <<list_var, "ARG_1">>, <<len_var, "ARG_2">> >>,
        tag_Err.var_store,
        body,
        ret_var)

\* num_bytes_to_u16  (lines 1142-1144)
num_bytes_to_u16(symbol, var_store) ==
    num_bytes_to(symbol, var_store, Lit(1), "NumBytesToU16")

\* A faulty num_bytes_to_u32, kept for comparison: the bounds check covers
\* two bytes where the primitive reads four.
num_bytes_to_u32_two_bytes(symbol, var_store) ==
    num_bytes_to(symbol, var_store, Lit(1), "NumBytesToU32")

\* num_bytes_to_u32  (lines 1147-1149)
num_bytes_to_u32(symbol, var_store) ==
    num_bytes_to(symbol, var_store, Lit(3), "NumBytesToU32")

\* A faulty num_max_i128, kept for comparison: it looks up the signature of
\* Num.maxInt, which the table does not hold.
num_max_i128_other_key(symbol, var_store) ==
    LET int_var == fresh(var_store, 1)
        int_precision_var == fresh(var_store, 2)
        body == int(int_var, int_precision_var, i128_MAX)
        solved == std_types("NUM_MAX_INT")
        signature == to_type(solved.value.solved, store_after(var_store, 2))
        annotation == [
            signature |-> signature.type,
            introduced_variables |-> <<>>,
            region |-> Region_zero,
            aliases |-> <<>>]
    IN IF ~solved.some
       THEN [panicked |-> TRUE, var_store |-> store_after(var_store, 2)]
       ELSE [def |-> [
                annotation |-> Some(annotation),
                expr_var |-> int_var,
                loc_expr |-> no_region(body),
                loc_pattern |-> no_region(Identifier(symbol)),
                pattern_vars |-> <<>>],
             var_store |-> signature.var_store]

\* num_max_i128  (lines 1187-1211)
\* std.get(&symbol).unwrap() panics when the table has no entry for symbol.
num_max_i128(symbol, var_store) ==
    LET int_var == fresh(var_store, 1)
        int_precision_var == fresh(var_store, 2)
        body == int(int_var, int_precision_var, i128_MAX)
        solved == std_types(symbol)
        signature == to_type(solved.value.solved, store_after(var_store, 2))
        annotation == [
            signature |-> signature.type,
            introduced_variables |-> <<>>,
            region |-> Region_zero,
            aliases |-> <<>>]
    IN IF ~solved.some
       THEN [panicked |-> TRUE, var_store |-> store_after(var_store, 2)]
       ELSE [def |-> [
                annotation |-> Some(annotation),
                expr_var |-> int_var,
                loc_expr |-> no_region(body),
                loc_pattern |-> no_region(Identifier(symbol)),
                pattern_vars |-> <<>>],
             var_store |-> signature.var_store]

\* list_is_empty  (lines 1214-1243)
list_is_empty(symbol, var_store) ==
    LET list_var == fresh(var_store, 1)
        bool_var == fresh(var_store, 2)
        len_var == Variable_NAT
        unbound_zero_var == Variable_NATURAL
        body == [
            k |-> "RunLowLevel",
            op |-> "Eq",
            args |-> <<
                <<len_var, num(unbound_zero_var, Lit(0))>>,
                <<
                    len_var,
                    [
                        k |-> "RunLowLevel",
                        op |-> "ListLen",
                        args |-> << <<list_var, Var("ARG_1")>> >>,
                        ret_var |-> len_var]>> >>,
            ret_var |-> bool_var]
    IN defn(symbol, << <<list_var, "ARG_1">> >>, store_after(var_store, 2), body, bool_var)

\* list_reverse  (lines 1246-1262)
list_reverse(symbol, var_store) ==
    LET list_var == fresh(var_store, 1)
        body == [
            k |-> "RunLowLevel",
            op |-> "ListReverse",
            args |-> << <<list_var, Var("ARG_1")>> >>,
            ret_var |-> list_var]
    IN defn(symbol, << <<list_var, "ARG_1">> >>, store_after(var_store, 1), body, list_var)

\* str_split  (lines 1265-1282)
str_split(symbol, var_store) ==
    LET str_var == fresh(var_store, 1)
        ret_list_var == fresh(var_store, 2)
        body == [
            k |-> "RunLowLevel",
            op |-> "StrSplit",
            args |-> << <<str_var, Var("ARG_1")>>, <<str_var, Var("ARG_2")>> >>,
            ret_var |-> ret_list_var]
    IN defn(
        symbol,
        << <<str_var, "ARG_1">>, <<str_var, "ARG_2">> >>,
        store_after(var_store, 2),
        body,
        ret_list_var)

\* str_repeat  (lines 1290-1307)
str_repeat(symbol, var_store) ==
    LET str_var == fresh(var_store, 1)
        nat_var == fresh(var_store, 2)
        body == [
            k |-> "RunLowLevel",
            op |-> "StrRepeat",
            args |-> << <<str_var, Var("ARG_1")>>, <<nat_var, Var("ARG_2")>> >>,
            ret_var |-> str_var]
    IN defn(
        symbol,
        << <<str_var, "ARG_1">>, <<nat_var, "ARG_2">> >>,
        store_after(var_store, 2),
        body,
        str_var)

\* str_concat  (lines 1310-1326)
str_concat(symbol, var_store) ==
    LET str_var == fresh(var_store, 1)
        body == [
            k |-> "RunLowLevel",
            op |-> "StrConcat",
            args |-> << <<str_var, Var("ARG_1")>>, <<str_var, Var("ARG_2")>> >>,
            ret_var |-> str_var]
    IN defn(
        symbol,
        << <<str_var, "ARG_1">>, <<str_var, "ARG_2">> >>,
        store_after(var_store, 1),
        body,
        str_var)

\* str_join_with  (lines 1329-1349)
str_join_with(symbol, var_store) ==
    LET list_str_var == fresh(var_store, 1)
        str_var == fresh(var_store, 2)
        body == [
            k |-> "RunLowLevel",
            op |-> "StrJoinWith",
            args |-> << <<list_str_var, Var("ARG_1")>>, <<str_var, Var("ARG_2")>> >>,
            ret_var |-> str_var]
    IN defn(
        symbol,
        << <<list_str_var, "ARG_1">>, <<str_var, "ARG_2">> >>,
        store_after(var_store, 2),
        body,
        str_var)

\* str_is_empty  (lines 1352-1369)
str_is_empty(symbol, var_store) ==
    LET str_var == fresh(var_store, 1)
        bool_var == fresh(var_store, 2)
        body == [
            k |-> "RunLowLevel",
            op |-> "StrIsEmpty",
            args |-> << <<str_var, Var("ARG_1")>> >>,
            ret_var |-> bool_var]
    IN defn(symbol, << <<str_var, "ARG_1">> >>, store_after(var_store, 2), body, bool_var)

\* str_ends_with  (lines 1382-1399)
str_ends_with(symbol, var_store) ==
    LET str_var == fresh(var_store, 1)
        bool_var == fresh(var_store, 2)
        body == [
            k |-> "RunLowLevel",
            op |-> "StrEndsWith",
            args |-> << <<str_var, Var("ARG_1")>>, <<str_var, Var("ARG_2")>> >>,
            ret_var |-> bool_var]
    IN defn(
        symbol,
        << <<str_var, "ARG_1">>, <<str_var, "ARG_2">> >>,
        store_after(var_store, 2),
        body,
        bool_var)

\* str_count_graphemes  (lines 1402-1419)
str_count_graphemes(symbol, var_store) ==
    LET str_var == fresh(var_store, 1)
        int_var == fresh(var_store, 2)
        body == [
            k |-> "RunLowLevel",
            op |-> "StrCountGraphemes",
            args |-> << <<str_var, Var("ARG_1")>> >>,
            ret_var |-> int_var]
    IN defn(symbol, << <<str_var, "ARG_1">> >>, store_after(var_store, 2), body, int_var)

\* str_from_int  (lines 1422-1439)
str_from_int(symbol, var_store) ==
    LET int_var == fresh(var_store, 1)
        str_var == fresh(var_store, 2)
        body == [
            k |-> "RunLowLevel",
            op |-> "StrFromInt",
            args |-> << <<int_var, Var("ARG_1")>> >>,
            ret_var |-> str_var]
    IN defn(symbol, << <<int_var, "ARG_1">> >>, store_after(var_store, 2), body, str_var)

\* A faulty str_from_utf8, kept for comparison: the problem kind is read from
\* the byte index field.
str_from_utf8_problem_lost(symbol, var_store) ==
    LET bytes_var == fresh(var_store, 1)
        bool_var == fresh(var_store, 2)
        record_var == fresh(var_store, 3)
        ret_var == fresh(var_store, 4)
        def == [
            loc_pattern |-> no_region(Identifier("ARG_2")),
            loc_expr |-> no_region([
                k |-> "RunLowLevel",
                op |-> "StrFromUtf8",
                args |-> << <<bytes_var, Var("ARG_1")>> >>,
                ret_var |-> record_var]),
            expr_var |-> record_var,
            pattern_vars |-> <<>>,
            annotation |-> None]
        tag_Ok == tag(
            "Ok",
            <<[
                k |-> "Access",
                record_var |-> record_var,
                ext_var |-> fresh(var_store, 7),
                field |-> "b_str",
                field_var |-> fresh(var_store, 8),
                loc_expr |-> no_region(Var("ARG_2"))]>>,
            store_after(var_store, 8))
        tag_BadUtf8 == tag(
            "BadUtf8",
            <<
                [
                    k |-> "Access",
                    record_var |-> record_var,
                    ext_var |-> fresh(tag_Ok.var_store, 1),
                    field |-> "a_byteIndex",
                    field_var |-> fresh(tag_Ok.var_store, 2),
                    loc_expr |-> no_region(Var("ARG_2"))],
                [
                    k |-> "Access",
                    record_var |-> record_var,
                    ext_var |-> fresh(tag_Ok.var_store, 3),
                    field |-> "a_byteIndex",
                    field_var |-> fresh(tag_Ok.var_store, 4),
                    loc_expr |-> no_region(Var("ARG_2"))]>>,
            store_after(tag_Ok.var_store, 4))
        tag_Err == tag("Err", <<tag_BadUtf8.expr>>, tag_BadUtf8.var_store)
        cont == [
            k |-> "If",
            branch_var |-> ret_var,
            cond_var |-> bool_var,
            branches |-> << <<
                no_region([
                    k |-> "Access",
                    record_var |-> record_var,
                    ext_var |-> fresh(var_store, 5),
                    field |-> "c_isOk",
                    field_var |-> fresh(var_store, 6),
                    loc_expr |-> no_region(Var("ARG_2"))]),
                no_region(tag_Ok.expr)>> >>,
            final_else |-> no_region(tag_Err.expr)]
        body == LetNonRec(def, no_region(cont), ret_var)
    IN defn(symbol, << <<bytes_var, "ARG_1">> >>, tag_Err.var_store, body, ret_var)

\* str_from_utf8  (lines 1442-1543)
str_from_utf8(symbol, var_store) ==
    LET bytes_var == fresh(var_store, 1)
        bool_var == fresh(var_store, 2)
        record_var == fresh(var_store, 3)
        ret_var == fresh(var_store, 4)
        def == [
            loc_pattern |-> no_region(Identifier("ARG_2")),
            loc_expr |-> no_region([
                k |-> "RunLowLevel",
                op |-> "StrFromUtf8",
                args |-> << <<bytes_var, Var("ARG_1")>> >>,
                ret_var |-> record_var]),
            expr_var |-> record_var,
            pattern_vars |-> <<>>,
            annotation |-> None]
        tag_Ok == tag(
            "Ok",
            <<[
                k |-> "Access",
                record_var |-> record_var,
                ext_var |-> fresh(var_store, 7),
                field |-> "b_str",
                field_var |-> fresh(var_store, 8),
                loc_expr |-> no_region(Var("ARG_2"))]>>,
            store_after(var_store, 8))
        tag_BadUtf8 == tag(
            "BadUtf8",
            <<
                [
                    k |-> "Access",
                    record_var |-> record_var,
                    ext_var |-> fresh(tag_Ok.var_store, 1),
                    field |-> "d_problem",
                    field_var |-> fresh(tag_Ok.var_store, 2),
                    loc_expr |-> no_region(Var("ARG_2"))],
                [
                    k |-> "Access",
                    record_var |-> record_var,
                    ext_var |-> fresh(tag_Ok.var_store, 3),
                    field |-> "a_byteIndex",
                    field_var |-> fresh(tag_Ok.var_store, 4),
                    loc_expr |-> no_region(Var("ARG_2"))]>>,
            store_after(tag_Ok.var_store, 4))
        tag_Err == tag("Err", <<tag_BadUtf8.expr>>, tag_BadUtf8.var_store)
        cont == [
            k |-> "If",
            branch_var |-> ret_var,
            cond_var |-> bool_var,
            branches |-> << <<
                no_region([
                    k |-> "Access",
                    record_var |-> record_var,
                    ext_var |-> fresh(var_store, 5),
                    field |-> "c_isOk",
                    field_var |-> fresh(var_store, 6),
                    loc_expr |-> no_region(Var("ARG_2"))]),
                no_region(tag_Ok.expr)>> >>,
            final_else |-> no_region(tag_Err.expr)]
        body == LetNonRec(def, no_region(cont), ret_var)
    IN defn(symbol, << <<bytes_var, "ARG_1">> >>, tag_Err.var_store, body, ret_var)

\* A faulty str_from_utf8_range, kept for comparison: the guard rejects the
\* range that ends where the list ends.
str_from_utf8_range_strict(symbol, var_store) ==
    LET bytes_var == fresh(var_store, 1)
        bool_var == fresh(var_store, 2)
        arg_record_var == fresh(var_store, 3)
        ll_record_var == fresh(var_store, 4)
        ret_var == fresh(var_store, 5)
        def == [
            loc_pattern |-> no_region(Identifier("ARG_3")),
            loc_expr |-> no_region([
                k |-> "RunLowLevel",
                op |-> "StrFromUtf8Range",
                args |-> << <<bytes_var, Var("ARG_1")>>, <<arg_record_var, Var("ARG_2")>> >>,
                ret_var |-> ll_record_var]),
            expr_var |-> ll_record_var,
            pattern_vars |-> <<>>,
            annotation |-> None]
        tag_Ok == tag(
            "Ok",
            <<[
                k |-> "Access",
                record_var |-> ll_record_var,
                ext_var |-> fresh(var_store, 8),
                field |-> "b_str",
                field_var |-> fresh(var_store, 9),
                loc_expr |-> no_region(Var("ARG_3"))]>>,
            store_after(var_store, 9))
        tag_BadUtf8 == tag(
            "BadUtf8",
            <<
                [
                    k |-> "Access",
                    record_var |-> ll_record_var,
                    ext_var |-> fresh(tag_Ok.var_store, 1),
                    field |-> "d_problem",
                    field_var |-> fresh(tag_Ok.var_store, 2),
                    loc_expr |-> no_region(Var("ARG_3"))],
                [
                    k |-> "Access",
                    record_var |-> ll_record_var,
                    ext_var |-> fresh(tag_Ok.var_store, 3),
                    field |-> "a_byteIndex",
                    field_var |-> fresh(tag_Ok.var_store, 4),
                    loc_expr |-> no_region(Var("ARG_3"))]>>,
            store_after(tag_Ok.var_store, 4))
        tag_Err == tag("Err", <<tag_BadUtf8.expr>>, tag_BadUtf8.var_store)
        cont == [
            k |-> "If",
            branch_var |-> ret_var,
            cond_var |-> bool_var,
            branches |-> << <<
                no_region([
                    k |-> "Access",
                    record_var |-> ll_record_var,
                    ext_var |-> fresh(var_store, 6),
                    field |-> "c_isOk",
                    field_var |-> fresh(var_store, 7),
                    loc_expr |-> no_region(Var("ARG_3"))]),
                no_region(tag_Ok.expr)>> >>,
            final_else |-> no_region(tag_Err.expr)]
        roc_result == LetNonRec(def, no_region(cont), ret_var)
        bounds_var == fresh(tag_Err.var_store, 1)
        bounds_bool == fresh(tag_Err.var_store, 2)
        add_var == fresh(tag_Err.var_store, 3)
        tag_OutOfBounds == tag("OutOfBounds", <<>>, store_after(tag_Err.var_store, 7))
        tag_Err_2 == tag("Err", <<tag_OutOfBounds.expr>>, tag_OutOfBounds.var_store)
        body == [
            k |-> "If",
            cond_var |-> bounds_bool,
            branch_var |-> ret_var,
            branches |-> << <<
                no_region([
                    k |-> "RunLowLevel",
                    op |-> "NumLt",
                    args |-> <<
                        <<
                            bounds_var,
                            [
                                k |-> "RunLowLevel",
                                op |-> "NumAdd",
                                args |-> <<
                                    <<
                                        add_var,
                                        [
                                            k |-> "Access",
                                            record_var |-> arg_record_var,
                                            ext_var |-> fresh(tag_Err.var_store, 4),
                                            field |-> "start",
                                            field_var |-> fresh(tag_Err.var_store, 5),
                                            loc_expr |-> no_region(Var("ARG_2"))]>>,
                                    <<
                                        add_var,
                                        [
                                            k |-> "Access",
                                            record_var |-> arg_record_var,
                                            ext_var |-> fresh(tag_Err.var_store, 6),
                                            field |-> "count",
                                            field_var |-> fresh(tag_Err.var_store, 7),
                                            loc_expr |-> no_region(Var("ARG_2"))]>> >>,
                                ret_var |-> add_var]>>,
                        <<
                            bounds_var,
                            [
                                k |-> "RunLowLevel",
                                op |-> "ListLen",
                                args |-> << <<bytes_var, Var("ARG_1")>> >>,
                                ret_var |-> bounds_var]>> >>,
                    ret_var |-> bounds_bool]),
                no_region(roc_result)>> >>,
            final_else |-> no_region(tag_Err_2.expr)]
    IN defn(
        symbol,
        << <<bytes_var, "ARG_1">>, <<arg_record_var, "ARG_2">> >>,
        tag_Err_2.var_store,
        body,
        ret_var)

\* str_from_utf8_range  (lines 1545-1716)
str_from_utf8_range(symbol, var_store) ==
    LET bytes_var == fresh(var_store, 1)
        bool_var == fresh(var_store, 2)
        arg_record_var == fresh(var_store, 3)
        ll_record_var == fresh(var_store, 4)
        ret_var == fresh(var_store, 5)
        def == [
            loc_pattern |-> no_region(Identifier("ARG_3")),
            loc_expr |-> no_region([
                k |-> "RunLowLevel",
                op |-> "StrFromUtf8Range",
                args |-> << <<bytes_var, Var("ARG_1")>>, <<arg_record_var, Var("ARG_2")>> >>,
                ret_var |-> ll_record_var]),
            expr_var |-> ll_record_var,
            pattern_vars |-> <<>>,
            annotation |-> None]
        tag_Ok == tag(
            "Ok",
            <<[
                k |-> "Access",
                record_var |-> ll_record_var,
                ext_var |-> fresh(var_store, 8),
                field |-> "b_str",
                field_var |-> fresh(var_store, 9),
                loc_expr |-> no_region(Var("ARG_3"))]>>,
            store_after(var_store, 9))
        tag_BadUtf8 == tag(
            "BadUtf8",
            <<
                [
                    k |-> "Access",
                    record_var |-> ll_record_var,
                    ext_var |-> fresh(tag_Ok.var_store, 1),
                    field |-> "d_problem",
                    field_var |-> fresh(tag_Ok.var_store, 2),
                    loc_expr |-> no_region(Var("ARG_3"))],
                [
                    k |-> "Access",
                    record_var |-> ll_record_var,
                    ext_var |-> fresh(tag_Ok.var_store, 3),
                    field |-> "a_byteIndex",
                    field_var |-> fresh(tag_Ok.var_store, 4),
                    loc_expr |-> no_region(Var("ARG_3"))]>>,
            store_after(tag_Ok.var_store, 4))
        tag_Err == tag("Err", <<tag_BadUtf8.expr>>, tag_BadUtf8.var_store)
        cont == [
            k |-> "If",
            branch_var |-> ret_var,
            cond_var |-> bool_var,
            branches |-> << <<
                no_region([
                    k |-> "Access",
                    record_var |-> ll_record_var,
                    ext_var |-> fresh(var_store, 6),
                    field |-> "c_isOk",
                    field_var |-> fresh(var_store, 7),
                    loc_expr |-> no_region(Var("ARG_3"))]),
                no_region(tag_Ok.expr)>> >>,
            final_else |-> no_region(tag_Err.expr)]
        roc_result == LetNonRec(def, no_region(cont), ret_var)
        bounds_var == fresh(tag_Err.var_store, 1)
        bounds_bool == fresh(tag_Err.var_store, 2)
        add_var == fresh(tag_Err.var_store, 3)
        tag_OutOfBounds == tag("OutOfBounds", <<>>, store_after(tag_Err.var_store, 7))
        tag_Err_2 == tag("Err", <<tag_OutOfBounds.expr>>, tag_OutOfBounds.var_store)
        body == [
            k |-> "If",
            cond_var |-> bounds_bool,
            branch_var |-> ret_var,
            branches |-> << <<
                no_region([
                    k |-> "RunLowLevel",
                    op |-> "NumLte",
                    args |-> <<
                        <<
                            bounds_var,
                            [
                                k |-> "RunLowLevel",
                                op |-> "NumAdd",
                                args |-> <<
                                    <<
                                        add_var,
                                        [
                                            k |-> "Access",
                                            record_var |-> arg_record_var,
                                            ext_var |-> fresh(tag_Err.var_store, 4),
                                            field |-> "start",
                                            field_var |-> fresh(tag_Err.var_store, 5),
                                            loc_expr |-> no_region(Var("ARG_2"))]>>,
                                    <<
                                        add_var,
                                        [
                                            k |-> "Access",
                                            record_var |-> arg_record_var,
                                            ext_var |-> fresh(tag_Err.var_store, 6),
                                            field |-> "count",
                                            field_var |-> fresh(tag_Err.var_store, 7),
                                            loc_expr |-> no_region(Var("ARG_2"))]>> >>,
                                ret_var |-> add_var]>>,
                        <<
                            bounds_var,
                            [
                                k |-> "RunLowLevel",
                                op |-> "ListLen",
                                args |-> << <<bytes_var, Var("ARG_1")>> >>,
                                ret_var |-> bounds_var]>> >>,
                    ret_var |-> bounds_bool]),
                no_region(roc_result)>> >>,
            final_else |-> no_region(tag_Err_2.expr)]
    IN defn(
        symbol,
        << <<bytes_var, "ARG_1">>, <<arg_record_var, "ARG_2">> >>,
        tag_Err_2.var_store,
        body,
        ret_var)

\* str_from_float  (lines 1724-1741)
str_from_float(symbol, var_store) ==
    LET float_var == fresh(var_store, 1)
        str_var == fresh(var_store, 2)
        body == [
            k |-> "RunLowLevel",
            op |-> "StrFromFloat",
            args |-> << <<float_var, Var("ARG_1")>> >>,
            ret_var |-> str_var]
    IN defn(symbol, << <<float_var, "ARG_1">> >>, store_after(var_store, 2), body, str_var)

\* list_concat  (lines 1744-1763)
list_concat(symbol, var_store) ==
    LET list_var == fresh(var_store, 1)
        body == [
            k |-> "RunLowLevel",
            op |-> "ListConcat",
            args |-> << <<list_var, Var("ARG_1")>>, <<list_var, Var("ARG_2")>> >>,
            ret_var |-> list_var]
    IN defn(
        symbol,
        << <<list_var, "ARG_1">>, <<list_var, "ARG_2">> >>,
        store_after(var_store, 1),
        body,
        list_var)

\* list_repeat  (lines 1766-1787)
list_repeat(symbol, var_store) ==
    LET elem_var == fresh(var_store, 1)
        len_var == fresh(var_store, 2)
        list_var == fresh(var_store, 3)
        body == [
            k |-> "RunLowLevel",
            op |-> "ListRepeat",
            args |-> << <<elem_var, Var("ARG_1")>>, <<len_var, Var("ARG_2")>> >>,
            ret_var |-> list_var]
    IN defn(
        symbol,
        << <<elem_var, "ARG_1">>, <<len_var, "ARG_2">> >>,
        store_after(var_store, 3),
        body,
        list_var)

\* list_single  (lines 1790-1807)
list_single(symbol, var_store) ==
    LET elem_var == fresh(var_store, 1)
        list_var == fresh(var_store, 2)
        body == [
            k |-> "RunLowLevel",
            op |-> "ListSingle",
            args |-> << <<elem_var, Var("ARG_1")>> >>,
            ret_var |-> list_var]
    IN defn(symbol, << <<elem_var, "ARG_1">> >>, store_after(var_store, 2), body, list_var)

\* list_len  (lines 1810-1827)
list_len(symbol, var_store) ==
    LET len_var == fresh(var_store, 1)
        list_var == fresh(var_store, 2)
        body == [
            k |-> "RunLowLevel",
            op |-> "ListLen",
            args |-> << <<list_var, Var("ARG_1")>> >>,
            ret_var |-> len_var]
    IN defn(symbol, << <<list_var, "ARG_1">> >>, store_after(var_store, 2), body, len_var)

\* A faulty list_get, kept for comparison: the guard admits index = length.
list_get_off_by_one(symbol, var_store) ==
    LET arg_list == "ARG_1"
        arg_index == "ARG_2"
        bool_var == fresh(var_store, 1)
        len_var == fresh(var_store, 2)
        list_var == fresh(var_store, 3)
        elem_var == fresh(var_store, 4)
        ret_var == fresh(var_store, 5)
        tag_Ok == tag(
            "Ok",
            <<[
                k |-> "RunLowLevel",
                op |-> "ListGetUnsafe",
                args |-> << <<list_var, Var(arg_list)>>, <<len_var, Var(arg_index)>> >>,
                ret_var |-> elem_var]>>,
            store_after(var_store, 6))
        tag_OutOfBounds == tag("OutOfBounds", <<>>, tag_Ok.var_store)
        tag_Err == tag("Err", <<tag_OutOfBounds.expr>>, tag_OutOfBounds.var_store)
        body == [
            k |-> "If",
            cond_var |-> bool_var,
            branch_var |-> fresh(var_store, 6),
            branches |-> << <<
                no_region([
                    k |-> "RunLowLevel",
                    op |-> "NumLte",
                    args |-> <<
                        <<len_var, Var(arg_index)>>,
                        <<
                            len_var,
                            [
                                k |-> "RunLowLevel",
                                op |-> "ListLen",
                                args |-> << <<list_var, Var(arg_list)>> >>,
                                ret_var |-> len_var]>> >>,
                    ret_var |-> bool_var]),
                no_region(tag_Ok.expr)>> >>,
            final_else |-> no_region(tag_Err.expr)]
    IN defn(
        symbol,
        << <<list_var, "ARG_1">>, <<len_var, "ARG_2">> >>,
        tag_Err.var_store,
        body,
        ret_var)

\* list_get  (lines 1835-1905)
list_get(symbol, var_store) ==
    LET arg_list == "ARG_1"
        arg_index == "ARG_2"
        bool_var == fresh(var_store, 1)
        len_var == fresh(var_store, 2)
        list_var == fresh(var_store, 3)
        elem_var == fresh(var_store, 4)
        ret_var == fresh(var_store, 5)
        tag_Ok == tag(
            "Ok",
            <<[
                k |-> "RunLowLevel",
                op |-> "ListGetUnsafe",
                args |-> << <<list_var, Var(arg_list)>>, <<len_var, Var(arg_index)>> >>,
                ret_var |-> elem_var]>>,
            store_after(var_store, 6))
        tag_OutOfBounds == tag("OutOfBounds", <<>>, tag_Ok.var_store)
        tag_Err == tag("Err", <<tag_OutOfBounds.expr>>, tag_OutOfBounds.var_store)
        body == [
            k |-> "If",
            cond_var |-> bool_var,
            branch_var |-> fresh(var_store, 6),
            branches |-> << <<
                no_region([
                    k |-> "RunLowLevel",
                    op |-> "NumLt",
                    args |-> <<
                        <<len_var, Var(arg_index)>>,
                        <<
                            len_var,
                            [
                                k |-> "RunLowLevel",
                                op |-> "ListLen",
                                args |-> << <<list_var, Var(arg_list)>> >>,
                                ret_var |-> len_var]>> >>,
                    ret_var |-> bool_var]),
                no_region(tag_Ok.expr)>> >>,
            final_else |-> no_region(tag_Err.expr)]
    IN defn(
        symbol,
        << <<list_var, "ARG_1">>, <<len_var, "ARG_2">> >>,
        tag_Err.var_store,
        body,
        ret_var)

\* A faulty list_set, kept for comparison: the index may equal the length.
list_set_off_by_one(symbol, var_store) ==
    LET arg_list == "ARG_1"
        arg_index == "ARG_2"
        arg_elem == "ARG_3"
        bool_var == fresh(var_store, 1)
        len_var == fresh(var_store, 2)
        elem_var == fresh(var_store, 3)
        list_arg_var == fresh(var_store, 4)
        list_ret_var == fresh(var_store, 5)
        body == [
            k |-> "If",
            cond_var |-> bool_var,
            branch_var |-> list_ret_var,
            branches |-> << <<
                no_region([
                    k |-> "RunLowLevel",
                    op |-> "NumLte",
                    args |-> <<
                        <<len_var, Var(arg_index)>>,
                        <<
                            len_var,
                            [
                                k |-> "RunLowLevel",
                                op |-> "ListLen",
                                args |-> << <<list_arg_var, Var(arg_list)>> >>,
                                ret_var |-> len_var]>> >>,
                    ret_var |-> bool_var]),
                no_region([
                    k |-> "RunLowLevel",
                    op |-> "ListSet",
                    args |-> <<
                        <<list_arg_var, Var(arg_list)>>,
                        <<len_var, Var(arg_index)>>,
                        <<elem_var, Var(arg_elem)>> >>,
                    ret_var |-> list_ret_var])>> >>,
            final_else |-> no_region(Var(arg_list))]
    IN defn(
        symbol,
        << <<list_arg_var, "ARG_1">>, <<len_var, "ARG_2">>, <<elem_var, "ARG_3">> >>,
        store_after(var_store, 5),
        body,
        list_ret_var)

\* list_set  (lines 1914-1980)
list_set(symbol, var_store) ==
    LET arg_list == "ARG_1"
        arg_index == "ARG_2"
        arg_elem == "ARG_3"
        bool_var == fresh(var_store, 1)
        len_var == fresh(var_store, 2)
        elem_var == fresh(var_store, 3)
        list_arg_var == fresh(var_store, 4)
        list_ret_var == fresh(var_store, 5)
        body == [
            k |-> "If",
            cond_var |-> bool_var,
            branch_var |-> list_ret_var,
            branches |-> << <<
                no_region([
                    k |-> "RunLowLevel",
                    op |-> "NumLt",
                    args |-> <<
                        <<len_var, Var(arg_index)>>,
                        <<
                            len_var,
                            [
                                k |-> "RunLowLevel",
                                op |-> "ListLen",
                                args |-> << <<list_arg_var, Var(arg_list)>> >>,
                                ret_var |-> len_var]>> >>,
                    ret_var |-> bool_var]),
                no_region([
                    k |-> "RunLowLevel",
                    op |-> "ListSet",
                    args |-> <<
                        <<list_arg_var, Var(arg_list)>>,
                        <<len_var, Var(arg_index)>>,
                        <<elem_var, Var(arg_elem)>> >>,
                    ret_var |-> list_ret_var])>> >>,
            final_else |-> no_region(Var(arg_list))]
    IN defn(
        symbol,
        << <<list_arg_var, "ARG_1">>, <<len_var, "ARG_2">>, <<elem_var, "ARG_3">> >>,
        store_after(var_store, 5),
        body,
        list_ret_var)

\* list_swap  (lines 1983-2009)
list_swap(symbol, var_store) ==
    LET list_var == fresh(var_store, 1)
        index1_var == fresh(var_store, 2)
        index2_var == fresh(var_store, 3)
        body == [
            k |-> "RunLowLevel",
            op |-> "ListSwap",
            args |-> <<
                <<list_var, Var("ARG_1")>>,
                <<index1_var, Var("ARG_2")>>,
                <<index2_var, Var("ARG_3")>> >>,
            ret_var |-> list_var]
    IN defn(
        symbol,
        << <<list_var, "ARG_1">>, <<index1_var, "ARG_2">>, <<index2_var, "ARG_3">> >>,
        store_after(var_store, 3),
        body,
        list_var)

\* list_take_first  (lines 2012-2032)
list_take_first(symbol, var_store) ==
    LET list_var == fresh(var_store, 1)
        len_var == fresh(var_store, 2)
        body == [
            k |-> "RunLowLevel",
            op |-> "ListTakeFirst",
            args |-> << <<list_var, Var("ARG_1")>>, <<len_var, Var("ARG_2")>> >>,
            ret_var |-> list_var]
    IN defn(
        symbol,
        << <<list_var, "ARG_1">>, <<len_var, "ARG_2">> >>,
        store_after(var_store, 2),
        body,
        list_var)

\* list_take_last  (lines 2035-2055)
list_take_last(symbol, var_store) ==
    LET list_var == fresh(var_store, 1)
        len_var == fresh(var_store, 2)
        body == [
            k |-> "RunLowLevel",
            op |-> "ListTakeLast",
            args |-> << <<list_var, Var("ARG_1")>>, <<len_var, Var("ARG_2")>> >>,
            ret_var |-> list_var]
    IN defn(
        symbol,
        << <<list_var, "ARG_1">>, <<len_var, "ARG_2">> >>,
        store_after(var_store, 2),
        body,
        list_var)

\* list_drop  (lines 2058-2078)
list_drop(symbol, var_store) ==
    LET list_var == fresh(var_store, 1)
        index_var == fresh(var_store, 2)
        body == [
            k |-> "RunLowLevel",
            op |-> "ListDrop",
            args |-> << <<list_var, Var("ARG_1")>>, <<index_var, Var("ARG_2")>> >>,
            ret_var |-> list_var]
    IN defn(
        symbol,
        << <<list_var, "ARG_1">>, <<index_var, "ARG_2">> >>,
        store_after(var_store, 2),
        body,
        list_var)

\* list_drop_at  (lines 2081-2101)
list_drop_at(symbol, var_store) ==
    LET list_var == fresh(var_store, 1)
        index_var == fresh(var_store, 2)
        body == [
            k |-> "RunLowLevel",
            op |-> "ListDropAt",
            args |-> << <<list_var, Var("ARG_1")>>, <<index_var, Var("ARG_2")>> >>,
            ret_var |-> list_var]
    IN defn(
        symbol,
        << <<list_var, "ARG_1">>, <<index_var, "ARG_2">> >>,
        store_after(var_store, 2),
        body,
        list_var)

\* list_drop_first  (lines 2103-2125)
list_drop_first(symbol, var_store) ==
    LET list_var == fresh(var_store, 1)
        index_var == fresh(var_store, 2)
        num_var == Variable_NAT
        num_precision_var == Variable_NATURAL
        body == [
            k |-> "RunLowLevel",
            op |-> "ListDropAt",
            args |-> <<
                <<list_var, Var("ARG_1")>>,
                <<index_var, int(num_var, num_precision_var, Lit(0))>> >>,
            ret_var |-> list_var]
    IN defn(symbol, << <<list_var, "ARG_1">> >>, store_after(var_store, 2), body, list_var)

\* list_drop_last  (lines 2128-2171)
list_drop_last(symbol, var_store) ==
    LET list_var == fresh(var_store, 1)
        index_var == fresh(var_store, 2)
        arg_var == fresh(var_store, 3)
        len_var == Variable_NAT
        num_var == len_var
        num_precision_var == Variable_NATURAL
        body == [
            k |-> "RunLowLevel",
            op |-> "ListDropAt",
            args |-> <<
                <<list_var, Var("ARG_1")>>,
                <<
                    index_var,
                    [
                        k |-> "RunLowLevel",
                        op |-> "NumSubWrap",
                        args |-> <<
                            <<
                                arg_var,
                                [
                                    k |-> "RunLowLevel",
                                    op |-> "ListLen",
                                    args |-> << <<list_var, Var("ARG_1")>> >>,
                                    ret_var |-> len_var]>>,
                            <<arg_var, int(num_var, num_precision_var, Lit(1))>> >>,
                        ret_var |-> len_var]>> >>,
            ret_var |-> list_var]
    IN defn(symbol, << <<list_var, "ARG_1">> >>, store_after(var_store, 3), body, list_var)

\* list_append  (lines 2173-2193)
list_append(symbol, var_store) ==
    LET list_var == fresh(var_store, 1)
        elem_var == fresh(var_store, 2)
        body == [
            k |-> "RunLowLevel",
            op |-> "ListAppend",
            args |-> << <<list_var, Var("ARG_1")>>, <<elem_var, Var("ARG_2")>> >>,
            ret_var |-> list_var]
    IN defn(
        symbol,
        << <<list_var, "ARG_1">>, <<elem_var, "ARG_2">> >>,
        store_after(var_store, 2),
        body,
        list_var)

\* list_prepend  (lines 2196-2216)
list_prepend(symbol, var_store) ==
    LET list_var == fresh(var_store, 1)
        elem_var == fresh(var_store, 2)
        body == [
            k |-> "RunLowLevel",
            op |-> "ListPrepend",
            args |-> << <<list_var, Var("ARG_1")>>, <<elem_var, Var("ARG_2")>> >>,
            ret_var |-> list_var]
    IN defn(
        symbol,
        << <<list_var, "ARG_1">>, <<elem_var, "ARG_2">> >>,
        store_after(var_store, 2),
        body,
        list_var)

\* list_join  (lines 2219-2236)
list_join(symbol, var_store) ==
    LET list_var == fresh(var_store, 1)
        list_of_list_var == fresh(var_store, 2)
        body == [
            k |-> "RunLowLevel",
            op |-> "ListJoin",
            args |-> << <<list_of_list_var, Var("ARG_1")>> >>,
            ret_var |-> list_var]
    IN defn(
        symbol,
        << <<list_of_list_var, "ARG_1">> >>,
        store_after(var_store, 2),
        body,
        list_var)

\* A faulty list_join_map, kept for comparison: the mapped list is put in
\* front of the state.
list_join_map_prepending(symbol, var_store) ==
    LET before == fresh(var_store, 1)
        list_before == fresh(var_store, 2)
        after == fresh(var_store, 3)
        list_after == fresh(var_store, 4)
        before2list_after == fresh(var_store, 5)
        t_concat_clos == fresh(var_store, 6)
        mapper_lambda_set == fresh(var_store, 7)
        mapper == <<
            before2list_after,
            no_region(Var("ARG_2")),
            mapper_lambda_set,
            list_after>>
        mapper_elem == Call(mapper, << <<before, no_region(Var("ARG_4"))>> >>, "Space")
        concat_clos == [
            k |-> "Closure",
            function_type |-> t_concat_clos,
            closure_type |-> fresh(var_store, 8),
            closure_ext_var |-> fresh(var_store, 9),
            return_type |-> list_after,
            name |-> "LIST_JOIN_MAP_CONCAT",
            recursive |-> "NotRecursive",
            captured_symbols |-> << <<"ARG_2", before2list_after>> >>,
            arguments |-> <<
                <<list_after, no_region(Identifier("ARG_3"))>>,
                <<before, no_region(Identifier("ARG_4"))>> >>,
            loc_body |-> no_region([
                k |-> "RunLowLevel",
                op |-> "ListConcat",
                args |-> << <<list_after, mapper_elem>>, <<list_after, Var("ARG_3")>> >>,
                ret_var |-> list_after])]
        body == [
            k |-> "RunLowLevel",
            op |-> "ListWalk",
            args |-> <<
                <<list_before, Var("ARG_1")>>,
                <<list_after, [k |-> "List", elem_var |-> after, loc_elems |-> <<>>]>>,
                <<t_concat_clos, concat_clos>> >>,
            ret_var |-> list_after]
    IN defn(
        symbol,
        << <<list_before, "ARG_1">>, <<before2list_after, "ARG_2">> >>,
        store_after(var_store, 9),
        body,
        list_after)

\* A faulty list_join_map, kept for comparison: the step closure does not
\* list the mapper among its captured symbols.
list_join_map_uncaptured(symbol, var_store) ==
    LET before == fresh(var_store, 1)
        list_before == fresh(var_store, 2)
        after == fresh(var_store, 3)
        list_after == fresh(var_store, 4)
        before2list_after == fresh(var_store, 5)
        t_concat_clos == fresh(var_store, 6)
        mapper_lambda_set == fresh(var_store, 7)
        mapper == <<
            before2list_after,
            no_region(Var("ARG_2")),
            mapper_lambda_set,
            list_after>>
        mapper_elem == Call(mapper, << <<before, no_region(Var("ARG_4"))>> >>, "Space")
        concat_clos == [
            k |-> "Closure",
            function_type |-> t_concat_clos,
            closure_type |-> fresh(var_store, 8),
            closure_ext_var |-> fresh(var_store, 9),
            return_type |-> list_after,
            name |-> "LIST_JOIN_MAP_CONCAT",
            recursive |-> "NotRecursive",
            captured_symbols |-> <<>>,
            arguments |-> <<
                <<list_after, no_region(Identifier("ARG_3"))>>,
                <<before, no_region(Identifier("ARG_4"))>> >>,
            loc_body |-> no_region([
                k |-> "RunLowLevel",
                op |-> "ListConcat",
                args |-> << <<list_after, Var("ARG_3")>>, <<list_after, mapper_elem>> >>,
                ret_var |-> list_after])]
        body == [
            k |-> "RunLowLevel",
            op |-> "ListWalk",
            args |-> <<
                <<list_before, Var("ARG_1")>>,
                <<list_after, [k |-> "List", elem_var |-> after, loc_elems |-> <<>>]>>,
                <<t_concat_clos, concat_clos>> >>,
            ret_var |-> list_after]
    IN defn(
        symbol,
        << <<list_before, "ARG_1">>, <<before2list_after, "ARG_2">> >>,
        store_after(var_store, 9),
        body,
        list_after)

\* list_join_map  (lines 2254-2328)
list_join_map(symbol, var_store) ==
    LET before == fresh(var_store, 1)
        list_before == fresh(var_store, 2)
        after == fresh(var_store, 3)
        list_after == fresh(var_store, 4)
        before2list_after == fresh(var_store, 5)
        t_concat_clos == fresh(var_store, 6)
        mapper_lambda_set == fresh(var_store, 7)
        mapper == <<
            before2list_after,
            no_region(Var("ARG_2")),
            mapper_lambda_set,
            list_after>>
        mapper_elem == Call(mapper, << <<before, no_region(Var("ARG_4"))>> >>, "Space")
        concat_clos == [
            k |-> "Closure",
            function_type |-> t_concat_clos,
            closure_type |-> fresh(var_store, 8),
            closure_ext_var |-> fresh(var_store, 9),
            return_type |-> list_after,
            name |-> "LIST_JOIN_MAP_CONCAT",
            recursive |-> "NotRecursive",
            captured_symbols |-> << <<"ARG_2", before2list_after>> >>,
            arguments |-> <<
                <<list_after, no_region(Identifier("ARG_3"))>>,
                <<before, no_region(Identifier("ARG_4"))>> >>,
            loc_body |-> no_region([
                k |-> "RunLowLevel",
                op |-> "ListConcat",
                args |-> << <<list_after, Var("ARG_3")>>, <<list_after, mapper_elem>> >>,
                ret_var |-> list_after])]
        body == [
            k |-> "RunLowLevel",
            op |-> "ListWalk",
            args |-> <<
                <<list_before, Var("ARG_1")>>,
                <<list_after, [k |-> "List", elem_var |-> after, loc_elems |-> <<>>]>>,
                <<t_concat_clos, concat_clos>> >>,
            ret_var |-> list_after]
    IN defn(
        symbol,
        << <<list_before, "ARG_1">>, <<before2list_after, "ARG_2">> >>,
        store_after(var_store, 9),
        body,
        list_after)

\* A faulty list_min_lt, kept for comparison: the element is kept when it is
\* greater than the state.
list_min_lt_keeps_greater(list_elem_var, var_store) ==
    LET bool_var == fresh(var_store, 1)
        body == [
            k |-> "If",
            cond_var |-> bool_var,
            branch_var |-> list_elem_var,
            branches |-> << <<
                no_region([
                    k |-> "RunLowLevel",
                    op |-> "NumGt",
                    args |-> <<
                        <<list_elem_var, Var("ARG_4")>>,
                        <<list_elem_var, Var("ARG_3")>> >>,
                    ret_var |-> bool_var]),
                no_region(Var("ARG_4"))>> >>,
            final_else |-> no_region(Var("ARG_3"))]
    IN defn_help(
        "LIST_MIN_LT",
        << <<list_elem_var, "ARG_3">>, <<list_elem_var, "ARG_4">> >>,
        store_after(var_store, 1),
        body,
        list_elem_var)

\* list_min_lt  (lines 2422-2458)
list_min_lt(list_elem_var, var_store) ==
    LET bool_var == fresh(var_store, 1)
        body == [
            k |-> "If",
            cond_var |-> bool_var,
            branch_var |-> list_elem_var,
            branches |-> << <<
                no_region([
                    k |-> "RunLowLevel",
                    op |-> "NumLt",
                    args |-> <<
                        <<list_elem_var, Var("ARG_4")>>,
                        <<list_elem_var, Var("ARG_3")>> >>,
                    ret_var |-> bool_var]),
                no_region(Var("ARG_4"))>> >>,
            final_else |-> no_region(Var("ARG_3"))]
    IN defn_help(
        "LIST_MIN_LT",
        << <<list_elem_var, "ARG_3">>, <<list_elem_var, "ARG_4">> >>,
        store_after(var_store, 1),
        body,
        list_elem_var)

\* list_min  (lines 2331-2419)
list_min(symbol, var_store) ==
    LET arg_var == fresh(var_store, 1)
        bool_var == fresh(var_store, 2)
        list_var == fresh(var_store, 3)
        len_var == Variable_NAT
        num_var == len_var
        num_precision_var == Variable_NATURAL
        list_elem_var == fresh(var_store, 4)
        ret_var == fresh(var_store, 5)
        closure_var == fresh(var_store, 6)
        list_min_lt_2 == list_min_lt(list_elem_var, store_after(var_store, 7))
        tag_Ok == tag(
            "Ok",
            <<[
                k |-> "RunLowLevel",
                op |-> "ListWalk",
                args |-> <<
                    <<list_var, Var("ARG_1")>>,
                    <<
                        list_elem_var,
                        [
                            k |-> "RunLowLevel",
                            op |-> "ListGetUnsafe",
                            args |-> <<
                                <<list_var, Var("ARG_1")>>,
                                <<arg_var, int(num_var, num_precision_var, Lit(0))>> >>,
                            ret_var |-> list_elem_var]>>,
                    <<closure_var, list_min_lt_2.expr>> >>,
                ret_var |-> list_elem_var]>>,
            list_min_lt_2.var_store)
        tag_ListWasEmpty == tag("ListWasEmpty", <<>>, tag_Ok.var_store)
        tag_Err == tag("Err", <<tag_ListWasEmpty.expr>>, tag_ListWasEmpty.var_store)
        body == [
            k |-> "If",
            cond_var |-> bool_var,
            branch_var |-> fresh(var_store, 7),
            branches |-> << <<
                no_region([
                    k |-> "RunLowLevel",
                    op |-> "NotEq",
                    args |-> <<
                        <<len_var, int(num_var, num_precision_var, Lit(0))>>,
                        <<
                            len_var,
                            [
                                k |-> "RunLowLevel",
                                op |-> "ListLen",
                                args |-> << <<list_var, Var("ARG_1")>> >>,
                                ret_var |-> len_var]>> >>,
                    ret_var |-> bool_var]),
                no_region(tag_Ok.expr)>> >>,
            final_else |-> no_region(tag_Err.expr)]
    IN defn(symbol, << <<list_var, "ARG_1">> >>, tag_Err.var_store, body, ret_var)

\* list_max_gt  (lines 2552-2588)
list_max_gt(list_elem_var, var_store) ==
    LET bool_var == fresh(var_store, 1)
        body == [
            k |-> "If",
            cond_var |-> bool_var,
            branch_var |-> list_elem_var,
            branches |-> << <<
                no_region([
                    k |-> "RunLowLevel",
                    op |-> "NumGt",
                    args |-> <<
                        <<list_elem_var, Var("ARG_4")>>,
                        <<list_elem_var, Var("ARG_3")>> >>,
                    ret_var |-> bool_var]),
                no_region(Var("ARG_4"))>> >>,
            final_else |-> no_region(Var("ARG_3"))]
    IN defn_help(
        "LIST_MAX_GT",
        << <<list_elem_var, "ARG_3">>, <<list_elem_var, "ARG_4">> >>,
        store_after(var_store, 1),
        body,
        list_elem_var)

\* list_max  (lines 2461-2549)
list_max(symbol, var_store) ==
    LET arg_var == fresh(var_store, 1)
        bool_var == fresh(var_store, 2)
        list_var == fresh(var_store, 3)
        len_var == Variable_NAT
        num_var == len_var
        num_precision_var == Variable_NATURAL
        list_elem_var == fresh(var_store, 4)
        ret_var == fresh(var_store, 5)
        closure_var == fresh(var_store, 6)
        list_max_gt_2 == list_max_gt(list_elem_var, store_after(var_store, 7))
        tag_Ok == tag(
            "Ok",
            <<[
                k |-> "RunLowLevel",
                op |-> "ListWalk",
                args |-> <<
                    <<list_var, Var("ARG_1")>>,
                    <<
                        list_elem_var,
                        [
                            k |-> "RunLowLevel",
                            op |-> "ListGetUnsafe",
                            args |-> <<
                                <<list_var, Var("ARG_1")>>,
                                <<arg_var, int(num_var, num_precision_var, Lit(0))>> >>,
                            ret_var |-> list_elem_var]>>,
                    <<closure_var, list_max_gt_2.expr>> >>,
                ret_var |-> list_elem_var]>>,
            list_max_gt_2.var_store)
        tag_ListWasEmpty == tag("ListWasEmpty", <<>>, tag_Ok.var_store)
        tag_Err == tag("Err", <<tag_ListWasEmpty.expr>>, tag_ListWasEmpty.var_store)
        body == [
            k |-> "If",
            cond_var |-> bool_var,
            branch_var |-> fresh(var_store, 7),
            branches |-> << <<
                no_region([
                    k |-> "RunLowLevel",
                    op |-> "NotEq",
                    args |-> <<
                        <<len_var, int(num_var, num_precision_var, Lit(0))>>,
                        <<
                            len_var,
                            [
                                k |-> "RunLowLevel",
                                op |-> "ListLen",
                                args |-> << <<list_var, Var("ARG_1")>> >>,
                                ret_var |-> len_var]>> >>,
                    ret_var |-> bool_var]),
                no_region(tag_Ok.expr)>> >>,
            final_else |-> no_region(tag_Err.expr)]
    IN defn(symbol, << <<list_var, "ARG_1">> >>, tag_Err.var_store, body, ret_var)

\* list_sum_add  (lines 2616-2630)
list_sum_add(num_var, var_store) ==
    LET body == [
            k |-> "RunLowLevel",
            op |-> "NumAdd",
            args |-> << <<num_var, Var("ARG_3")>>, <<num_var, Var("ARG_4")>> >>,
            ret_var |-> num_var]
    IN defn_help(
        "LIST_SUM_ADD",
        << <<num_var, "ARG_3">>, <<num_var, "ARG_4">> >>,
        var_store,
        body,
        num_var)

\* list_sum  (lines 2591-2614)
list_sum(symbol, var_store) ==
    LET num_var == fresh(var_store, 1)
        ret_var == num_var
        list_var == fresh(var_store, 2)
        closure_var == fresh(var_store, 3)
        list_sum_add_2 == list_sum_add(num_var, store_after(var_store, 4))
        body == [
            k |-> "RunLowLevel",
            op |-> "ListWalk",
            args |-> <<
                <<list_var, Var("ARG_1")>>,
                <<num_var, num(fresh(var_store, 4), Lit(0))>>,
                <<closure_var, list_sum_add_2.expr>> >>,
            ret_var |-> ret_var]
    IN defn(symbol, << <<list_var, "ARG_1">> >>, list_sum_add_2.var_store, body, ret_var)

\* list_product_mul  (lines 2658-2672)
list_product_mul(num_var, var_store) ==
    LET body == [
            k |-> "RunLowLevel",
            op |-> "NumMul",
            args |-> << <<num_var, Var("ARG_3")>>, <<num_var, Var("ARG_4")>> >>,
            ret_var |-> num_var]
    IN defn_help(
        "LIST_PRODUCT_MUL",
        << <<num_var, "ARG_3">>, <<num_var, "ARG_4">> >>,
        var_store,
        body,
        num_var)

\* list_product  (lines 2633-2656)
list_product(symbol, var_store) ==
    LET num_var == fresh(var_store, 1)
        ret_var == num_var
        list_var == fresh(var_store, 2)
        closure_var == fresh(var_store, 3)
        list_product_mul_2 == list_product_mul(num_var, store_after(var_store, 4))
        body == [
            k |-> "RunLowLevel",
            op |-> "ListWalk",
            args |-> <<
                <<list_var, Var("ARG_1")>>,
                <<num_var, num(fresh(var_store, 4), Lit(1))>>,
                <<closure_var, list_product_mul_2.expr>> >>,
            ret_var |-> ret_var]
    IN defn(
        symbol,
        << <<list_var, "ARG_1">> >>,
        list_product_mul_2.var_store,
        body,
        ret_var)

\* list_keep_if  (lines 2675-2695)
list_keep_if(symbol, var_store) ==
    LET list_var == fresh(var_store, 1)
        func_var == fresh(var_store, 2)
        body == [
            k |-> "RunLowLevel",
            op |-> "ListKeepIf",
            args |-> << <<list_var, Var("ARG_1")>>, <<func_var, Var("ARG_2")>> >>,
            ret_var |-> list_var]
    IN defn(
        symbol,
        << <<list_var, "ARG_1">>, <<func_var, "ARG_2">> >>,
        store_after(var_store, 2),
        body,
        list_var)

\* list_find  (lines 2753-2831)
list_find(symbol, var_store) ==
    LET list == "ARG_1"
        find_predicate == "ARG_2"
        find_result == "LIST_FIND_RESULT"
        t_list == fresh(var_store, 1)
        t_pred_fn == fresh(var_store, 2)
        t_bool == fresh(var_store, 3)
        t_found == fresh(var_store, 4)
        t_value == fresh(var_store, 5)
        t_ret == fresh(var_store, 6)
        t_find_result == fresh(var_store, 7)
        t_ext_var1 == fresh(var_store, 8)
        t_ext_var2 == fresh(var_store, 9)
        find_result_def == [
            annotation |-> None,
            expr_var |-> t_find_result,
            loc_expr |-> no_region([
                k |-> "RunLowLevel",
                op |-> "ListFindUnsafe",
                args |-> << <<t_list, Var(list)>>, <<t_pred_fn, Var(find_predicate)>> >>,
                ret_var |-> t_find_result]),
            loc_pattern |-> no_region(Identifier(find_result)),
            pattern_vars |-> <<>>]
        get_value == [
            k |-> "Access",
            record_var |-> t_find_result,
            ext_var |-> t_ext_var1,
            field_var |-> t_value,
            loc_expr |-> no_region(Var(find_result)),
            field |-> "value"]
        get_found == [
            k |-> "Access",
            record_var |-> t_find_result,
            ext_var |-> t_ext_var2,
            field_var |-> t_found,
            loc_expr |-> no_region(Var(find_result)),
            field |-> "found"]
        tag_Ok == tag("Ok", <<get_value>>, store_after(var_store, 9))
        make_ok == tag_Ok.expr
        tag_NotFound == tag("NotFound", <<>>, tag_Ok.var_store)
        tag_Err == tag("Err", <<tag_NotFound.expr>>, tag_NotFound.var_store)
        make_err == tag_Err.expr
        inspect == [
            k |-> "If",
            cond_var |-> t_bool,
            branch_var |-> t_ret,
            branches |-> << <<no_region(get_found), no_region(make_ok)>> >>,
            final_else |-> no_region(make_err)]
        body == LetNonRec(find_result_def, no_region(inspect), t_ret)
    IN defn(
        symbol,
        << <<t_list, "ARG_1">>, <<t_pred_fn, "ARG_2">> >>,
        tag_Err.var_store,
        body,
        t_ret)

\* dict_len  (lines 2834-2851)
dict_len(symbol, var_store) ==
    LET arg1_var == fresh(var_store, 1)
        ret_var == Variable_NAT
        body == [
            k |-> "RunLowLevel",
            op |-> "DictSize",
            args |-> << <<arg1_var, Var("ARG_1")>> >>,
            ret_var |-> ret_var]
    IN defn(symbol, << <<arg1_var, "ARG_1">> >>, store_after(var_store, 1), body, ret_var)

\* dict_empty  (lines 2854-2869)
dict_empty(symbol, var_store) ==
    LET dict_var == fresh(var_store, 1)
        body == [
            k |-> "RunLowLevel",
            op |-> "DictEmpty",
            args |-> <<>>,
            ret_var |-> dict_var]
    IN [
        def |-> [
            annotation |-> None,
            expr_var |-> dict_var,
            loc_expr |-> no_region(body),
            loc_pattern |-> no_region(Identifier(symbol)),
            pattern_vars |-> <<>>],
        var_store |-> store_after(var_store, 1)]

\* dict_single  (lines 2872-2900)
dict_single(symbol, var_store) ==
    LET key_var == fresh(var_store, 1)
        value_var == fresh(var_store, 2)
        dict_var == fresh(var_store, 3)
        empty == [
            k |-> "RunLowLevel",
            op |-> "DictEmpty",
            args |-> <<>>,
            ret_var |-> dict_var]
        body == [
            k |-> "RunLowLevel",
            op |-> "DictInsert",
            args |-> <<
                <<dict_var, empty>>,
                <<key_var, Var("ARG_1")>>,
                <<value_var, Var("ARG_2")>> >>,
            ret_var |-> dict_var]
    IN defn(
        symbol,
        << <<key_var, "ARG_1">>, <<value_var, "ARG_2">> >>,
        store_after(var_store, 3),
        body,
        dict_var)

\* dict_remove  (lines 2908-2910)
dict_remove(symbol, var_store) ==
    lowlevel_2(symbol, "DictRemove", var_store)

\* dict_contains  (lines 2913-2915)
dict_contains(symbol, var_store) ==
    lowlevel_2(symbol, "DictContains", var_store)

\* A faulty dict_get, kept for comparison: the value field is returned
\* whatever the flag says.
dict_get_value_unguarded(symbol, var_store) ==
    LET arg_dict == "ARG_1"
        arg_key == "ARG_2"
        temp_record == "DICT_GET_RESULT"
        bool_var == fresh(var_store, 1)
        flag_var == fresh(var_store, 2)
        key_var == fresh(var_store, 3)
        dict_var == fresh(var_store, 4)
        value_var == fresh(var_store, 5)
        ret_var == fresh(var_store, 6)
        temp_record_var == fresh(var_store, 7)
        ext_var1 == fresh(var_store, 8)
        ext_var2 == fresh(var_store, 9)
        def_body == [
            k |-> "RunLowLevel",
            op |-> "DictGetUnsafe",
            args |-> << <<dict_var, Var(arg_dict)>>, <<key_var, Var(arg_key)>> >>,
            ret_var |-> temp_record_var]
        def == [
            annotation |-> None,
            expr_var |-> temp_record_var,
            loc_expr |-> no_region(def_body),
            loc_pattern |-> no_region(Identifier(temp_record)),
            pattern_vars |-> <<>>]
        get_value == [
            k |-> "Access",
            record_var |-> temp_record_var,
            ext_var |-> ext_var1,
            field_var |-> value_var,
            loc_expr |-> no_region(Var(temp_record)),
            field |-> "value"]
        get_flag == [
            k |-> "Access",
            record_var |-> temp_record_var,
            ext_var |-> ext_var2,
            field_var |-> flag_var,
            loc_expr |-> no_region(Var(temp_record)),
            field |-> "zflag"]
        tag_Ok == tag("Ok", <<get_value>>, store_after(var_store, 9))
        make_ok == tag_Ok.expr
        tag_KeyNotFound == tag("KeyNotFound", <<>>, tag_Ok.var_store)
        tag_Err == tag("Err", <<tag_KeyNotFound.expr>>, tag_KeyNotFound.var_store)
        make_err == tag_Err.expr
        inspect == [
            k |-> "If",
            cond_var |-> bool_var,
            branch_var |-> ret_var,
            branches |-> << <<no_region(get_flag), no_region(make_ok)>> >>,
            final_else |-> no_region(make_ok)]
        body == LetNonRec(def, no_region(inspect), ret_var)
    IN defn(
        symbol,
        << <<dict_var, "ARG_1">>, <<key_var, "ARG_2">> >>,
        tag_Err.var_store,
        body,
        ret_var)

\* dict_get  (lines 2918-2996)
dict_get(symbol, var_store) ==
    LET arg_dict == "ARG_1"
        arg_key == "ARG_2"
        temp_record == "DICT_GET_RESULT"
        bool_var == fresh(var_store, 1)
        flag_var == fresh(var_store, 2)
        key_var == fresh(var_store, 3)
        dict_var == fresh(var_store, 4)
        value_var == fresh(var_store, 5)
        ret_var == fresh(var_store, 6)
        temp_record_var == fresh(var_store, 7)
        ext_var1 == fresh(var_store, 8)
        ext_var2 == fresh(var_store, 9)
        def_body == [
            k |-> "RunLowLevel",
            op |-> "DictGetUnsafe",
            args |-> << <<dict_var, Var(arg_dict)>>, <<key_var, Var(arg_key)>> >>,
            ret_var |-> temp_record_var]
        def == [
            annotation |-> None,
            expr_var |-> temp_record_var,
            loc_expr |-> no_region(def_body),
            loc_pattern |-> no_region(Identifier(temp_record)),
            pattern_vars |-> <<>>]
        get_value == [
            k |-> "Access",
            record_var |-> temp_record_var,
            ext_var |-> ext_var1,
            field_var |-> value_var,
            loc_expr |-> no_region(Var(temp_record)),
            field |-> "value"]
        get_flag == [
            k |-> "Access",
            record_var |-> temp_record_var,
            ext_var |-> ext_var2,
            field_var |-> flag_var,
            loc_expr |-> no_region(Var(temp_record)),
            field |-> "zflag"]
        tag_Ok == tag("Ok", <<get_value>>, store_after(var_store, 9))
        make_ok == tag_Ok.expr
        tag_KeyNotFound == tag("KeyNotFound", <<>>, tag_Ok.var_store)
        tag_Err == tag("Err", <<tag_KeyNotFound.expr>>, tag_KeyNotFound.var_store)
        make_err == tag_Err.expr
        inspect == [
            k |-> "If",
            cond_var |-> bool_var,
            branch_var |-> ret_var,
            branches |-> << <<no_region(get_flag), no_region(make_ok)>> >>,
            final_else |-> no_region(make_err)]
        body == LetNonRec(def, no_region(inspect), ret_var)
    IN defn(
        symbol,
        << <<dict_var, "ARG_1">>, <<key_var, "ARG_2">> >>,
        tag_Err.var_store,
        body,
        ret_var)

\* dict_keys  (lines 2999-3001)
dict_keys(symbol, var_store) ==
    lowlevel_1(symbol, "DictKeys", var_store)

\* set_empty  (lines 3029-3044)
set_empty(symbol, var_store) ==
    LET set_var == fresh(var_store, 1)
        body == [
            k |-> "RunLowLevel",
            op |-> "DictEmpty",
            args |-> <<>>,
            ret_var |-> set_var]
    IN [
        def |-> [
            annotation |-> None,
            expr_var |-> set_var,
            loc_expr |-> no_region(body),
            loc_pattern |-> no_region(Identifier(symbol)),
            pattern_vars |-> <<>>],
        var_store |-> store_after(var_store, 1)]

\* set_single  (lines 3047-3075)
set_single(symbol, var_store) ==
    LET key_var == fresh(var_store, 1)
        set_var == fresh(var_store, 2)
        value_var == Variable_EMPTY_RECORD
        empty == [
            k |-> "RunLowLevel",
            op |-> "DictEmpty",
            args |-> <<>>,
            ret_var |-> set_var]
        body == [
            k |-> "RunLowLevel",
            op |-> "DictInsert",
            args |-> <<
                <<set_var, empty>>,
                <<key_var, Var("ARG_1")>>,
                <<value_var, EmptyRecord>> >>,
            ret_var |-> set_var]
    IN defn(symbol, << <<key_var, "ARG_1">> >>, store_after(var_store, 2), body, set_var)

\* A faulty set_to_list, kept for comparison: the definition is named after
\* the dictionary builtin it reuses.
set_to_list_as_dict(symbol, var_store) ==
    dict_keys("DICT_KEYS", var_store)

\* set_to_list  (lines 3098-3100)
set_to_list(symbol, var_store) ==
    dict_keys(symbol, var_store)

\* set_insert  (lines 3108-3130)
set_insert(symbol, var_store) ==
    LET dict_var == fresh(var_store, 1)
        key_var == fresh(var_store, 2)
        val_var == Variable_EMPTY_RECORD
        body == [
            k |-> "RunLowLevel",
            op |-> "DictInsert",
            args |-> <<
                <<dict_var, Var("ARG_1")>>,
                <<key_var, Var("ARG_2")>>,
                <<val_var, EmptyRecord>> >>,
            ret_var |-> dict_var]
    IN defn(
        symbol,
        << <<dict_var, "ARG_1">>, <<key_var, "ARG_2">> >>,
        store_after(var_store, 2),
        body,
        dict_var)

\* set_remove  (lines 3133-3135)
set_remove(symbol, var_store) ==
    dict_remove(symbol, var_store)

\* set_contains  (lines 3138-3140)
set_contains(symbol, var_store) ==
    dict_contains(symbol, var_store)

\* set_walk  (lines 3143-3203)
set_walk(symbol, var_store) ==
    LET dict_var == fresh(var_store, 1)
        func_var == fresh(var_store, 2)
        key_var == fresh(var_store, 3)
        accum_var == fresh(var_store, 4)
        wrapper_var == fresh(var_store, 5)
        user_function == <<
            func_var,
            no_region(Var("ARG_3")),
            fresh(var_store, 6),
            accum_var>>
        call_func == Call(
            user_function,
            <<
                <<accum_var, no_region(Var("ARG_5"))>>,
                <<key_var, no_region(Var("ARG_6"))>> >>,
            "Space")
        wrapper == [
            k |-> "Closure",
            function_type |-> wrapper_var,
            closure_type |-> fresh(var_store, 7),
            closure_ext_var |-> fresh(var_store, 8),
            return_type |-> accum_var,
            name |-> "SET_WALK_USER_FUNCTION",
            recursive |-> "NotRecursive",
            captured_symbols |-> << <<"ARG_3", func_var>> >>,
            arguments |-> <<
                <<accum_var, no_region(Identifier("ARG_5"))>>,
                <<key_var, no_region(Identifier("ARG_6"))>>,
                <<Variable_EMPTY_RECORD, no_region(Underscore)>> >>,
            loc_body |-> no_region(call_func)]
        body == [
            k |-> "RunLowLevel",
            op |-> "DictWalk",
            args |-> <<
                <<dict_var, Var("ARG_1")>>,
                <<accum_var, Var("ARG_2")>>,
                <<wrapper_var, wrapper>> >>,
            ret_var |-> accum_var]
    IN defn(
        symbol,
        << <<dict_var, "ARG_1">>, <<accum_var, "ARG_2">>, <<func_var, "ARG_3">> >>,
        store_after(var_store, 8),
        body,
        accum_var)

\* A faulty num_rem, kept for comparison: the guard tests the numerator.
num_rem_guards_numerator(symbol, var_store) ==
    LET num_var == fresh(var_store, 1)
        unbound_zero_var == fresh(var_store, 2)
        bool_var == fresh(var_store, 3)
        ret_var == fresh(var_store, 4)
        tag_Ok == tag(
            "Ok",
            <<[
                k |-> "RunLowLevel",
                op |-> "NumRemUnchecked",
                args |-> << <<num_var, Var("ARG_1")>>, <<num_var, Var("ARG_2")>> >>,
                ret_var |-> num_var]>>,
            store_after(var_store, 4))
        tag_DivByZero == tag("DivByZero", <<>>, tag_Ok.var_store)
        tag_Err == tag("Err", <<tag_DivByZero.expr>>, tag_DivByZero.var_store)
        body == [
            k |-> "If",
            branch_var |-> ret_var,
            cond_var |-> bool_var,
            branches |-> << <<
                no_region([
                    k |-> "RunLowLevel",
                    op |-> "NotEq",
                    args |-> <<
                        <<num_var, Var("ARG_1")>>,
                        <<num_var, num(unbound_zero_var, Lit(0))>> >>,
                    ret_var |-> bool_var]),
                no_region(tag_Ok.expr)>> >>,
            final_else |-> no_region(tag_Err.expr)]
    IN defn(
        symbol,
        << <<num_var, "ARG_1">>, <<num_var, "ARG_2">> >>,
        tag_Err.var_store,
        body,
        ret_var)

\* num_rem  (lines 3206-3262)
num_rem(symbol, var_store) ==
    LET num_var == fresh(var_store, 1)
        unbound_zero_var == fresh(var_store, 2)
        bool_var == fresh(var_store, 3)
        ret_var == fresh(var_store, 4)
        tag_Ok == tag(
            "Ok",
            <<[
                k |-> "RunLowLevel",
                op |-> "NumRemUnchecked",
                args |-> << <<num_var, Var("ARG_1")>>, <<num_var, Var("ARG_2")>> >>,
                ret_var |-> num_var]>>,
            store_after(var_store, 4))
        tag_DivByZero == tag("DivByZero", <<>>, tag_Ok.var_store)
        tag_Err == tag("Err", <<tag_DivByZero.expr>>, tag_DivByZero.var_store)
        body == [
            k |-> "If",
            branch_var |-> ret_var,
            cond_var |-> bool_var,
            branches |-> << <<
                no_region([
                    k |-> "RunLowLevel",
                    op |-> "NotEq",
                    args |-> <<
                        <<num_var, Var("ARG_2")>>,
                        <<num_var, num(unbound_zero_var, Lit(0))>> >>,
                    ret_var |-> bool_var]),
                no_region(tag_Ok.expr)>> >>,
            final_else |-> no_region(tag_Err.expr)]
    IN defn(
        symbol,
        << <<num_var, "ARG_1">>, <<num_var, "ARG_2">> >>,
        tag_Err.var_store,
        body,
        ret_var)

\* num_neg  (lines 3270-3286)
num_neg(symbol, var_store) ==
    LET num_var == fresh(var_store, 1)
        body == [
            k |-> "RunLowLevel",
            op |-> "NumNeg",
            args |-> << <<num_var, Var("ARG_1")>> >>,
            ret_var |-> num_var]
    IN defn(symbol, << <<num_var, "ARG_1">> >>, store_after(var_store, 1), body, num_var)

\* num_abs  (lines 3289-3305)
num_abs(symbol, var_store) ==
    LET num_var == fresh(var_store, 1)
        body == [
            k |-> "RunLowLevel",
            op |-> "NumAbs",
            args |-> << <<num_var, Var("ARG_1")>> >>,
            ret_var |-> num_var]
    IN defn(symbol, << <<num_var, "ARG_1">> >>, store_after(var_store, 1), body, num_var)

\* num_div_float  (lines 3308-3368)
num_div_float(symbol, var_store) ==
    LET bool_var == fresh(var_store, 1)
        num_var == fresh(var_store, 2)
        unbound_zero_var == fresh(var_store, 3)
        precision_var == fresh(var_store, 4)
        ret_var == fresh(var_store, 5)
        tag_Ok == tag(
            "Ok",
            <<[
                k |-> "RunLowLevel",
                op |-> "NumDivUnchecked",
                args |-> << <<num_var, Var("ARG_1")>>, <<num_var, Var("ARG_2")>> >>,
                ret_var |-> num_var]>>,
            store_after(var_store, 5))
        tag_DivByZero == tag("DivByZero", <<>>, tag_Ok.var_store)
        tag_Err == tag("Err", <<tag_DivByZero.expr>>, tag_DivByZero.var_store)
        body == [
            k |-> "If",
            branch_var |-> ret_var,
            cond_var |-> bool_var,
            branches |-> << <<
                no_region([
                    k |-> "RunLowLevel",
                    op |-> "NotEq",
                    args |-> <<
                        <<num_var, Var("ARG_2")>>,
                        <<num_var, float(unbound_zero_var, precision_var, Flt(0))>> >>,
                    ret_var |-> bool_var]),
                no_region(tag_Ok.expr)>> >>,
            final_else |-> no_region(tag_Err.expr)]
    IN defn(
        symbol,
        << <<num_var, "ARG_1">>, <<num_var, "ARG_2">> >>,
        tag_Err.var_store,
        body,
        ret_var)

\* num_div_int  (lines 3371-3434)
num_div_int(symbol, var_store) ==
    LET bool_var == fresh(var_store, 1)
        num_var == fresh(var_store, 2)
        unbound_zero_var == fresh(var_store, 3)
        unbound_zero_precision_var == fresh(var_store, 4)
        ret_var == fresh(var_store, 5)
        tag_Ok == tag(
            "Ok",
            <<[
                k |-> "RunLowLevel",
                op |-> "NumDivUnchecked",
                args |-> << <<num_var, Var("ARG_1")>>, <<num_var, Var("ARG_2")>> >>,
                ret_var |-> num_var]>>,
            store_after(var_store, 5))
        tag_DivByZero == tag("DivByZero", <<>>, tag_Ok.var_store)
        tag_Err == tag("Err", <<tag_DivByZero.expr>>, tag_DivByZero.var_store)
        body == [
            k |-> "If",
            branch_var |-> ret_var,
            cond_var |-> bool_var,
            branches |-> << <<
                no_region([
                    k |-> "RunLowLevel",
                    op |-> "NotEq",
                    args |-> <<
                        <<num_var, Var("ARG_2")>>,
                        <<
                            num_var,
                            int(unbound_zero_var, unbound_zero_precision_var, Lit(0))>> >>,
                    ret_var |-> bool_var]),
                no_region(tag_Ok.expr)>> >>,
            final_else |-> no_region(tag_Err.expr)]
    IN defn(
        symbol,
        << <<num_var, "ARG_1">>, <<num_var, "ARG_2">> >>,
        tag_Err.var_store,
        body,
        ret_var)

\* num_div_ceil  (lines 3437-3500)
num_div_ceil(symbol, var_store) ==
    LET bool_var == fresh(var_store, 1)
        num_var == fresh(var_store, 2)
        unbound_zero_var == fresh(var_store, 3)
        unbound_zero_precision_var == fresh(var_store, 4)
        ret_var == fresh(var_store, 5)
        tag_Ok == tag(
            "Ok",
            <<[
                k |-> "RunLowLevel",
                op |-> "NumDivCeilUnchecked",
                args |-> << <<num_var, Var("ARG_1")>>, <<num_var, Var("ARG_2")>> >>,
                ret_var |-> num_var]>>,
            store_after(var_store, 5))
        tag_DivByZero == tag("DivByZero", <<>>, tag_Ok.var_store)
        tag_Err == tag("Err", <<tag_DivByZero.expr>>, tag_DivByZero.var_store)
        body == [
            k |-> "If",
            branch_var |-> ret_var,
            cond_var |-> bool_var,
            branches |-> << <<
                no_region([
                    k |-> "RunLowLevel",
                    op |-> "NotEq",
                    args |-> <<
                        <<num_var, Var("ARG_2")>>,
                        <<
                            num_var,
                            int(unbound_zero_var, unbound_zero_precision_var, Lit(0))>> >>,
                    ret_var |-> bool_var]),
                no_region(tag_Ok.expr)>> >>,
            final_else |-> no_region(tag_Err.expr)]
    IN defn(
        symbol,
        << <<num_var, "ARG_1">>, <<num_var, "ARG_2">> >>,
        tag_Err.var_store,
        body,
        ret_var)

\* list_first  (lines 3507-3580)
list_first(symbol, var_store) ==
    LET bool_var == fresh(var_store, 1)
        list_var == fresh(var_store, 2)
        len_var == Variable_NAT
        zero_var == len_var
        zero_precision_var == Variable_NATURAL
        list_elem_var == fresh(var_store, 3)
        ret_var == fresh(var_store, 4)
        tag_Ok == tag(
            "Ok",
            <<[
                k |-> "RunLowLevel",
                op |-> "ListGetUnsafe",
                args |-> <<
                    <<list_var, Var("ARG_1")>>,
                    <<len_var, int(zero_var, zero_precision_var, Lit(0))>> >>,
                ret_var |-> list_elem_var]>>,
            store_after(var_store, 5))
        tag_ListWasEmpty == tag("ListWasEmpty", <<>>, tag_Ok.var_store)
        tag_Err == tag("Err", <<tag_ListWasEmpty.expr>>, tag_ListWasEmpty.var_store)
        body == [
            k |-> "If",
            cond_var |-> bool_var,
            branch_var |-> fresh(var_store, 5),
            branches |-> << <<
                no_region([
                    k |-> "RunLowLevel",
                    op |-> "NotEq",
                    args |-> <<
                        <<len_var, int(zero_var, zero_precision_var, Lit(0))>>,
                        <<
                            len_var,
                            [
                                k |-> "RunLowLevel",
                                op |-> "ListLen",
                                args |-> << <<list_var, Var("ARG_1")>> >>,
                                ret_var |-> len_var]>> >>,
                    ret_var |-> bool_var]),
                no_region(tag_Ok.expr)>> >>,
            final_else |-> no_region(tag_Err.expr)]
    IN defn(symbol, << <<list_var, "ARG_1">> >>, tag_Err.var_store, body, ret_var)

\* A faulty list_last, kept for comparison: the guard is true for the empty
\* list only.
list_last_guard_inverted(symbol, var_store) ==
    LET arg_var == fresh(var_store, 1)
        bool_var == fresh(var_store, 2)
        list_var == fresh(var_store, 3)
        len_var == Variable_NAT
        num_var == len_var
        num_precision_var == Variable_NATURAL
        list_elem_var == fresh(var_store, 4)
        ret_var == fresh(var_store, 5)
        tag_Ok == tag(
            "Ok",
            <<[
                k |-> "RunLowLevel",
                op |-> "ListGetUnsafe",
                args |-> <<
                    <<list_var, Var("ARG_1")>>,
                    <<
                        len_var,
                        [
                            k |-> "RunLowLevel",
                            op |-> "NumSubWrap",
                            args |-> <<
                                <<
                                    arg_var,
                                    [
                                        k |-> "RunLowLevel",
                                        op |-> "ListLen",
                                        args |-> << <<list_var, Var("ARG_1")>> >>,
                                        ret_var |-> len_var]>>,
                                <<arg_var, int(num_var, num_precision_var, Lit(1))>> >>,
                            ret_var |-> len_var]>> >>,
                ret_var |-> list_elem_var]>>,
            store_after(var_store, 6))
        tag_ListWasEmpty == tag("ListWasEmpty", <<>>, tag_Ok.var_store)
        tag_Err == tag("Err", <<tag_ListWasEmpty.expr>>, tag_ListWasEmpty.var_store)
        body == [
            k |-> "If",
            cond_var |-> bool_var,
            branch_var |-> fresh(var_store, 6),
            branches |-> << <<
                no_region([
                    k |-> "RunLowLevel",
                    op |-> "Eq",
                    args |-> <<
                        <<len_var, int(num_var, num_precision_var, Lit(0))>>,
                        <<
                            len_var,
                            [
                                k |-> "RunLowLevel",
                                op |-> "ListLen",
                                args |-> << <<list_var, Var("ARG_1")>> >>,
                                ret_var |-> len_var]>> >>,
                    ret_var |-> bool_var]),
                no_region(tag_Ok.expr)>> >>,
            final_else |-> no_region(tag_Err.expr)]
    IN defn(symbol, << <<list_var, "ARG_1">> >>, tag_Err.var_store, body, ret_var)

\* list_last  (lines 3587-3680)
list_last(symbol, var_store) ==
    LET arg_var == fresh(var_store, 1)
        bool_var == fresh(var_store, 2)
        list_var == fresh(var_store, 3)
        len_var == Variable_NAT
        num_var == len_var
        num_precision_var == Variable_NATURAL
        list_elem_var == fresh(var_store, 4)
        ret_var == fresh(var_store, 5)
        tag_Ok == tag(
            "Ok",
            <<[
                k |-> "RunLowLevel",
                op |-> "ListGetUnsafe",
                args |-> <<
                    <<list_var, Var("ARG_1")>>,
                    <<
                        len_var,
                        [
                            k |-> "RunLowLevel",
                            op |-> "NumSubWrap",
                            args |-> <<
                                <<
                                    arg_var,
                                    [
                                        k |-> "RunLowLevel",
                                        op |-> "ListLen",
                                        args |-> << <<list_var, Var("ARG_1")>> >>,
                                        ret_var |-> len_var]>>,
                                <<arg_var, int(num_var, num_precision_var, Lit(1))>> >>,
                            ret_var |-> len_var]>> >>,
                ret_var |-> list_elem_var]>>,
            store_after(var_store, 6))
        tag_ListWasEmpty == tag("ListWasEmpty", <<>>, tag_Ok.var_store)
        tag_Err == tag("Err", <<tag_ListWasEmpty.expr>>, tag_ListWasEmpty.var_store)
        body == [
            k |-> "If",
            cond_var |-> bool_var,
            branch_var |-> fresh(var_store, 6),
            branches |-> << <<
                no_region([
                    k |-> "RunLowLevel",
                    op |-> "NotEq",
                    args |-> <<
                        <<len_var, int(num_var, num_precision_var, Lit(0))>>,
                        <<
                            len_var,
                            [
                                k |-> "RunLowLevel",
                                op |-> "ListLen",
                                args |-> << <<list_var, Var("ARG_1")>> >>,
                                ret_var |-> len_var]>> >>,
                    ret_var |-> bool_var]),
                no_region(tag_Ok.expr)>> >>,
            final_else |-> no_region(tag_Err.expr)]
    IN defn(symbol, << <<list_var, "ARG_1">> >>, tag_Err.var_store, body, ret_var)

\* result_map  (lines 3682-3777)
result_map(symbol, var_store) ==
    LET ret_var == fresh(var_store, 1)
        func_var == fresh(var_store, 2)
        result_var == fresh(var_store, 3)
        branches == <<>>
        user_function == <<
            func_var,
            no_region(Var("ARG_2")),
            fresh(var_store, 4),
            fresh(var_store, 5)>>
        call_func == Call(
            user_function,
            << <<fresh(var_store, 6), no_region(Var("ARG_5"))>> >>,
            "Space")
        tag_name == Global("Ok")
        ok == [
            k |-> "Tag",
            variant_var |-> fresh(var_store, 7),
            ext_var |-> fresh(var_store, 8),
            name |-> tag_name,
            arguments |-> << <<fresh(var_store, 9), no_region(call_func)>> >>]
        pattern == [
            k |-> "AppliedTag",
            whole_var |-> result_var,
            ext_var |-> fresh(var_store, 10),
            tag_name |-> tag_name,
            arguments |-> << <<fresh(var_store, 11), no_region(Identifier("ARG_5"))>> >>]
        branch == [
            patterns |-> <<no_region(pattern)>>,
            value |-> no_region(ok),
            guard |-> None]
        branches_2 == Append(branches, branch)
        tag_name_2 == Global("Err")
        err == [
            k |-> "Tag",
            variant_var |-> fresh(var_store, 12),
            ext_var |-> fresh(var_store, 13),
            name |-> tag_name_2,
            arguments |-> << <<fresh(var_store, 14), no_region(Var("ARG_4"))>> >>]
        pattern_2 == [
            k |-> "AppliedTag",
            whole_var |-> result_var,
            ext_var |-> fresh(var_store, 15),
            tag_name |-> tag_name_2,
            arguments |-> << <<fresh(var_store, 16), no_region(Identifier("ARG_4"))>> >>]
        branch_2 == [
            patterns |-> <<no_region(pattern_2)>>,
            value |-> no_region(err),
            guard |-> None]
        branches_3 == Append(branches_2, branch_2)
        body == [
            k |-> "When",
            cond_var |-> result_var,
            expr_var |-> ret_var,
            region |-> Region_zero,
            loc_cond |-> no_region(Var("ARG_1")),
            branches |-> branches_3]
    IN defn(
        symbol,
        << <<result_var, "ARG_1">>, <<func_var, "ARG_2">> >>,
        store_after(var_store, 16),
        body,
        ret_var)

\* A faulty result_map_err, kept for comparison: the error is passed on
\* without applying the function.
result_map_err_unapplied(symbol, var_store) ==
    LET ret_var == fresh(var_store, 1)
        func_var == fresh(var_store, 2)
        result_var == fresh(var_store, 3)
        branches == <<>>
        user_function == <<
            func_var,
            no_region(Var("ARG_2")),
            fresh(var_store, 4),
            fresh(var_store, 5)>>
        call_func == Call(
            user_function,
            << <<fresh(var_store, 6), no_region(Var("ARG_5"))>> >>,
            "Space")
        tag_name == Global("Err")
        ok == [
            k |-> "Tag",
            variant_var |-> fresh(var_store, 7),
            ext_var |-> fresh(var_store, 8),
            name |-> tag_name,
            arguments |-> << <<fresh(var_store, 9), no_region(Var("ARG_5"))>> >>]
        pattern == [
            k |-> "AppliedTag",
            whole_var |-> result_var,
            ext_var |-> fresh(var_store, 10),
            tag_name |-> tag_name,
            arguments |-> << <<fresh(var_store, 11), no_region(Identifier("ARG_5"))>> >>]
        branch == [
            patterns |-> <<no_region(pattern)>>,
            value |-> no_region(ok),
            guard |-> None]
        branches_2 == Append(branches, branch)
        tag_name_2 == Global("Ok")
        err == [
            k |-> "Tag",
            variant_var |-> fresh(var_store, 12),
            ext_var |-> fresh(var_store, 13),
            name |-> tag_name_2,
            arguments |-> << <<fresh(var_store, 14), no_region(Var("ARG_4"))>> >>]
        pattern_2 == [
            k |-> "AppliedTag",
            whole_var |-> result_var,
            ext_var |-> fresh(var_store, 15),
            tag_name |-> tag_name_2,
            arguments |-> << <<fresh(var_store, 16), no_region(Identifier("ARG_4"))>> >>]
        branch_2 == [
            patterns |-> <<no_region(pattern_2)>>,
            value |-> no_region(err),
            guard |-> None]
        branches_3 == Append(branches_2, branch_2)
        body == [
            k |-> "When",
            cond_var |-> result_var,
            expr_var |-> ret_var,
            region |-> Region_zero,
            loc_cond |-> no_region(Var("ARG_1")),
            branches |-> branches_3]
    IN defn(
        symbol,
        << <<result_var, "ARG_1">>, <<func_var, "ARG_2">> >>,
        store_after(var_store, 16),
        body,
        ret_var)

\* result_map_err  (lines 3779-3874)
result_map_err(symbol, var_store) ==
    LET ret_var == fresh(var_store, 1)
        func_var == fresh(var_store, 2)
        result_var == fresh(var_store, 3)
        branches == <<>>
        user_function == <<
            func_var,
            no_region(Var("ARG_2")),
            fresh(var_store, 4),
            fresh(var_store, 5)>>
        call_func == Call(
            user_function,
            << <<fresh(var_store, 6), no_region(Var("ARG_5"))>> >>,
            "Space")
        tag_name == Global("Err")
        ok == [
            k |-> "Tag",
            variant_var |-> fresh(var_store, 7),
            ext_var |-> fresh(var_store, 8),
            name |-> tag_name,
            arguments |-> << <<fresh(var_store, 9), no_region(call_func)>> >>]
        pattern == [
            k |-> "AppliedTag",
            whole_var |-> result_var,
            ext_var |-> fresh(var_store, 10),
            tag_name |-> tag_name,
            arguments |-> << <<fresh(var_store, 11), no_region(Identifier("ARG_5"))>> >>]
        branch == [
            patterns |-> <<no_region(pattern)>>,
            value |-> no_region(ok),
            guard |-> None]
        branches_2 == Append(branches, branch)
        tag_name_2 == Global("Ok")
        err == [
            k |-> "Tag",
            variant_var |-> fresh(var_store, 12),
            ext_var |-> fresh(var_store, 13),
            name |-> tag_name_2,
            arguments |-> << <<fresh(var_store, 14), no_region(Var("ARG_4"))>> >>]
        pattern_2 == [
            k |-> "AppliedTag",
            whole_var |-> result_var,
            ext_var |-> fresh(var_store, 15),
            tag_name |-> tag_name_2,
            arguments |-> << <<fresh(var_store, 16), no_region(Identifier("ARG_4"))>> >>]
        branch_2 == [
            patterns |-> <<no_region(pattern_2)>>,
            value |-> no_region(err),
            guard |-> None]
        branches_3 == Append(branches_2, branch_2)
        body == [
            k |-> "When",
            cond_var |-> result_var,
            expr_var |-> ret_var,
            region |-> Region_zero,
            loc_cond |-> no_region(Var("ARG_1")),
            branches |-> branches_3]
    IN defn(
        symbol,
        << <<result_var, "ARG_1">>, <<func_var, "ARG_2">> >>,
        store_after(var_store, 16),
        body,
        ret_var)

\* A faulty result_with_default, kept for comparison: the Ok payload has the
\* variable of the whole result.
result_with_default_other_var(symbol, var_store) ==
    LET ret_var == fresh(var_store, 1)
        result_var == fresh(var_store, 2)
        branches == <<>>
        tag_name == Global("Ok")
        pattern == [
            k |-> "AppliedTag",
            whole_var |-> result_var,
            ext_var |-> fresh(var_store, 3),
            tag_name |-> tag_name,
            arguments |-> << <<result_var, no_region(Identifier("ARG_3"))>> >>]
        branch == [
            patterns |-> <<no_region(pattern)>>,
            value |-> no_region(Var("ARG_3")),
            guard |-> None]
        branches_2 == Append(branches, branch)
        tag_name_2 == Global("Err")
        pattern_2 == [
            k |-> "AppliedTag",
            whole_var |-> result_var,
            ext_var |-> fresh(var_store, 4),
            tag_name |-> tag_name_2,
            arguments |-> << <<fresh(var_store, 5), no_region(Underscore)>> >>]
        branch_2 == [
            patterns |-> <<no_region(pattern_2)>>,
            value |-> no_region(Var("ARG_2")),
            guard |-> None]
        branches_3 == Append(branches_2, branch_2)
        body == [
            k |-> "When",
            cond_var |-> result_var,
            expr_var |-> ret_var,
            region |-> Region_zero,
            loc_cond |-> no_region(Var("ARG_1")),
            branches |-> branches_3]
    IN defn(
        symbol,
        << <<result_var, "ARG_1">>, <<ret_var, "ARG_2">> >>,
        store_after(var_store, 5),
        body,
        ret_var)

\* result_with_default  (lines 3876-3937)
result_with_default(symbol, var_store) ==
    LET ret_var == fresh(var_store, 1)
        result_var == fresh(var_store, 2)
        branches == <<>>
        tag_name == Global("Ok")
        pattern == [
            k |-> "AppliedTag",
            whole_var |-> result_var,
            ext_var |-> fresh(var_store, 3),
            tag_name |-> tag_name,
            arguments |-> << <<ret_var, no_region(Identifier("ARG_3"))>> >>]
        branch == [
            patterns |-> <<no_region(pattern)>>,
            value |-> no_region(Var("ARG_3")),
            guard |-> None]
        branches_2 == Append(branches, branch)
        tag_name_2 == Global("Err")
        pattern_2 == [
            k |-> "AppliedTag",
            whole_var |-> result_var,
            ext_var |-> fresh(var_store, 4),
            tag_name |-> tag_name_2,
            arguments |-> << <<fresh(var_store, 5), no_region(Underscore)>> >>]
        branch_2 == [
            patterns |-> <<no_region(pattern_2)>>,
            value |-> no_region(Var("ARG_2")),
            guard |-> None]
        branches_3 == Append(branches_2, branch_2)
        body == [
            k |-> "When",
            cond_var |-> result_var,
            expr_var |-> ret_var,
            region |-> Region_zero,
            loc_cond |-> no_region(Var("ARG_1")),
            branches |-> branches_3]
    IN defn(
        symbol,
        << <<result_var, "ARG_1">>, <<ret_var, "ARG_2">> >>,
        store_after(var_store, 5),
        body,
        ret_var)

\* A faulty result_after, kept for comparison: the function is applied to the
\* error as well.
result_after_err_applied(symbol, var_store) ==
    LET ret_var == fresh(var_store, 1)
        func_var == fresh(var_store, 2)
        result_var == fresh(var_store, 3)
        branches == <<>>
        user_function == <<
            func_var,
            no_region(Var("ARG_2")),
            fresh(var_store, 4),
            fresh(var_store, 5)>>
        call_func == Call(
            user_function,
            << <<fresh(var_store, 6), no_region(Var("ARG_5"))>> >>,
            "Space")
        tag_name == Global("Ok")
        ok == call_func
        pattern == [
            k |-> "AppliedTag",
            whole_var |-> result_var,
            ext_var |-> fresh(var_store, 7),
            tag_name |-> tag_name,
            arguments |-> << <<fresh(var_store, 8), no_region(Identifier("ARG_5"))>> >>]
        branch == [
            patterns |-> <<no_region(pattern)>>,
            value |-> no_region(ok),
            guard |-> None]
        branches_2 == Append(branches, branch)
        tag_name_2 == Global("Err")
        err == [
            k |-> "Tag",
            variant_var |-> fresh(var_store, 9),
            ext_var |-> fresh(var_store, 10),
            name |-> tag_name_2,
            arguments |-> << <<fresh(var_store, 11), no_region(Call(user_function, << <<fresh(var_store, 6), no_region(Var("ARG_4"))>> >>, "Space"))>> >>]
        pattern_2 == [
            k |-> "AppliedTag",
            whole_var |-> result_var,
            ext_var |-> fresh(var_store, 12),
            tag_name |-> tag_name_2,
            arguments |-> << <<fresh(var_store, 13), no_region(Identifier("ARG_4"))>> >>]
        branch_2 == [
            patterns |-> <<no_region(pattern_2)>>,
            value |-> no_region(err),
            guard |-> None]
        branches_3 == Append(branches_2, branch_2)
        body == [
            k |-> "When",
            cond_var |-> result_var,
            expr_var |-> ret_var,
            region |-> Region_zero,
            loc_cond |-> no_region(Var("ARG_1")),
            branches |-> branches_3]
    IN defn(
        symbol,
        << <<result_var, "ARG_1">>, <<func_var, "ARG_2">> >>,
        store_after(var_store, 13),
        body,
        ret_var)

\* result_after  (lines 3939-4029)
result_after(symbol, var_store) ==
    LET ret_var == fresh(var_store, 1)
        func_var == fresh(var_store, 2)
        result_var == fresh(var_store, 3)
        branches == <<>>
        user_function == <<
            func_var,
            no_region(Var("ARG_2")),
            fresh(var_store, 4),
            fresh(var_store, 5)>>
        call_func == Call(
            user_function,
            << <<fresh(var_store, 6), no_region(Var("ARG_5"))>> >>,
            "Space")
        tag_name == Global("Ok")
        ok == call_func
        pattern == [
            k |-> "AppliedTag",
            whole_var |-> result_var,
            ext_var |-> fresh(var_store, 7),
            tag_name |-> tag_name,
            arguments |-> << <<fresh(var_store, 8), no_region(Identifier("ARG_5"))>> >>]
        branch == [
            patterns |-> <<no_region(pattern)>>,
            value |-> no_region(ok),
            guard |-> None]
        branches_2 == Append(branches, branch)
        tag_name_2 == Global("Err")
        err == [
            k |-> "Tag",
            variant_var |-> fresh(var_store, 9),
            ext_var |-> fresh(var_store, 10),
            name |-> tag_name_2,
            arguments |-> << <<fresh(var_store, 11), no_region(Var("ARG_4"))>> >>]
        pattern_2 == [
            k |-> "AppliedTag",
            whole_var |-> result_var,
            ext_var |-> fresh(var_store, 12),
            tag_name |-> tag_name_2,
            arguments |-> << <<fresh(var_store, 13), no_region(Identifier("ARG_4"))>> >>]
        branch_2 == [
            patterns |-> <<no_region(pattern_2)>>,
            value |-> no_region(err),
            guard |-> None]
        branches_3 == Append(branches_2, branch_2)
        body == [
            k |-> "When",
            cond_var |-> result_var,
            expr_var |-> ret_var,
            region |-> Region_zero,
            loc_cond |-> no_region(Var("ARG_1")),
            branches |-> branches_3]
    IN defn(
        symbol,
        << <<result_var, "ARG_1">>, <<func_var, "ARG_2">> >>,
        store_after(var_store, 13),
        body,
        ret_var)

(***************************************************************************)
(* The dispatch table.                                                     *)
(***************************************************************************)
\* The outcome of one call of builtin_defs_map: it panicked, or it returned
\* def (an Option<Def>); either way the store stands at var_store.
Outcome(panicked, def, var_store) ==
    [panicked |-> panicked, def |-> def, var_store |-> var_store]

\* A faulty arm, kept for comparison: it runs the synthesizer and then answers
\* "no definition".
macro_magic_arm_dropped(out) == Outcome(FALSE, None, out.var_store)

\* A faulty default arm, kept for comparison: it answers every identity
\* outside the table with the definition of Num.maxInt.
macro_magic_default_defined(var_store) ==
    LET out == num_max_int("NUM_MAX_INT", var_store)
    IN Outcome(FALSE, Some(out.def), out.var_store)

\* Symbol::$key => Some($func(Symbol::$key, $var_store))
macro_magic_arm(out) ==
    IF "panicked" \in DOMAIN out
    THEN Outcome(TRUE, None, out.var_store)
    ELSE Outcome(FALSE, Some(out.def), out.var_store)

\* _ => None
macro_magic_default(var_store) == Outcome(FALSE, None, var_store)

macro_magic(symbol, var_store) ==
    CASE
         symbol = "BOOL_EQ" -> macro_magic_arm(bool_eq(symbol, var_store))
      [] symbol = "BOOL_NEQ" -> macro_magic_arm(bool_neq(symbol, var_store))
      [] symbol = "BOOL_AND" -> macro_magic_arm(bool_and(symbol, var_store))
      [] symbol = "BOOL_OR" -> macro_magic_arm(bool_or(symbol, var_store))
      [] symbol = "BOOL_NOT" -> macro_magic_arm(bool_not(symbol, var_store))
      [] symbol = "STR_CONCAT" -> macro_magic_arm(str_concat(symbol, var_store))
      [] symbol = "STR_JOIN_WITH" -> macro_magic_arm(str_join_with(symbol, var_store))
      [] symbol = "STR_SPLIT" -> macro_magic_arm(str_split(symbol, var_store))
      [] symbol = "STR_IS_EMPTY" -> macro_magic_arm(str_is_empty(symbol, var_store))
      \* STR_STARTS_WITH => str_starts_with
      [] symbol = "STR_STARTS_WITH" ->
            macro_magic_arm(lowlevel_2(symbol, "StrStartsWith", var_store))
      \* STR_STARTS_WITH_CODE_PT => str_starts_with_code_point
      [] symbol = "STR_STARTS_WITH_CODE_PT" ->
            macro_magic_arm(lowlevel_2(symbol, "StrStartsWithCodePt", var_store))
      [] symbol = "STR_ENDS_WITH" -> macro_magic_arm(str_ends_with(symbol, var_store))
      [] symbol = "STR_COUNT_GRAPHEMES" ->
            macro_magic_arm(str_count_graphemes(symbol, var_store))
      [] symbol = "STR_FROM_INT" -> macro_magic_arm(str_from_int(symbol, var_store))
      [] symbol = "STR_FROM_UTF8" -> macro_magic_arm(str_from_utf8(symbol, var_store))
      [] symbol = "STR_FROM_UTF8_RANGE" ->
            macro_magic_arm(str_from_utf8_range(symbol, var_store))
      \* STR_TO_UTF8 => str_to_utf8
      [] symbol = "STR_TO_UTF8" ->
            macro_magic_arm(lowlevel_1(symbol, "StrToUtf8", var_store))
      [] symbol = "STR_FROM_FLOAT" -> macro_magic_arm(str_from_float(symbol, var_store))
      [] symbol = "STR_REPEAT" -> macro_magic_arm(str_repeat(symbol, var_store))
      \* STR_TRIM => str_trim
      [] symbol = "STR_TRIM" -> macro_magic_arm(lowlevel_1(symbol, "StrTrim", var_store))
      [] symbol = "LIST_LEN" -> macro_magic_arm(list_len(symbol, var_store))
      [] symbol = "LIST_GET" -> macro_magic_arm(list_get(symbol, var_store))
      [] symbol = "LIST_SET" -> macro_magic_arm(list_set(symbol, var_store))
      [] symbol = "LIST_APPEND" -> macro_magic_arm(list_append(symbol, var_store))
      [] symbol = "LIST_FIRST" -> macro_magic_arm(list_first(symbol, var_store))
      [] symbol = "LIST_LAST" -> macro_magic_arm(list_last(symbol, var_store))
      [] symbol = "LIST_IS_EMPTY" -> macro_magic_arm(list_is_empty(symbol, var_store))
      [] symbol = "LIST_SINGLE" -> macro_magic_arm(list_single(symbol, var_store))
      [] symbol = "LIST_REPEAT" -> macro_magic_arm(list_repeat(symbol, var_store))
      [] symbol = "LIST_REVERSE" -> macro_magic_arm(list_reverse(symbol, var_store))
      [] symbol = "LIST_CONCAT" -> macro_magic_arm(list_concat(symbol, var_store))
      \* LIST_CONTAINS => list_contains
      [] symbol = "LIST_CONTAINS" ->
            macro_magic_arm(lowlevel_2(symbol, "ListContains", var_store))
      [] symbol = "LIST_MIN" -> macro_magic_arm(list_min(symbol, var_store))
      [] symbol = "LIST_MAX" -> macro_magic_arm(list_max(symbol, var_store))
      [] symbol = "LIST_SUM" -> macro_magic_arm(list_sum(symbol, var_store))
      [] symbol = "LIST_PRODUCT" -> macro_magic_arm(list_product(symbol, var_store))
      [] symbol = "LIST_PREPEND" -> macro_magic_arm(list_prepend(symbol, var_store))
      [] symbol = "LIST_JOIN" -> macro_magic_arm(list_join(symbol, var_store))
      [] symbol = "LIST_JOIN_MAP" -> macro_magic_arm(list_join_map(symbol, var_store))
      \* LIST_MAP => list_map
      [] symbol = "LIST_MAP" -> macro_magic_arm(lowlevel_2(symbol, "ListMap", var_store))
      \* LIST_MAP2 => list_map2
      [] symbol = "LIST_MAP2" -> macro_magic_arm(lowlevel_3(symbol, "ListMap2", var_store))
      \* LIST_MAP3 => list_map3
      [] symbol = "LIST_MAP3" -> macro_magic_arm(lowlevel_4(symbol, "ListMap3", var_store))
      \* LIST_MAP4 => list_map4
      [] symbol = "LIST_MAP4" -> macro_magic_arm(lowlevel_5(symbol, "ListMap4", var_store))
      [] symbol = "LIST_TAKE_FIRST" -> macro_magic_arm(list_take_first(symbol, var_store))
      [] symbol = "LIST_TAKE_LAST" -> macro_magic_arm(list_take_last(symbol, var_store))
      [] symbol = "LIST_DROP" -> macro_magic_arm(list_drop(symbol, var_store))
      [] symbol = "LIST_DROP_AT" -> macro_magic_arm(list_drop_at(symbol, var_store))
      [] symbol = "LIST_DROP_FIRST" -> macro_magic_arm(list_drop_first(symbol, var_store))
      [] symbol = "LIST_DROP_LAST" -> macro_magic_arm(list_drop_last(symbol, var_store))
      [] symbol = "LIST_SWAP" -> macro_magic_arm(list_swap(symbol, var_store))
      \* LIST_MAP_WITH_INDEX => list_map_with_index
      [] symbol = "LIST_MAP_WITH_INDEX" ->
            macro_magic_arm(lowlevel_2(symbol, "ListMapWithIndex", var_store))
      [] symbol = "LIST_KEEP_IF" -> macro_magic_arm(list_keep_if(symbol, var_store))
      \* LIST_KEEP_OKS => list_keep_oks
      [] symbol = "LIST_KEEP_OKS" ->
            macro_magic_arm(lowlevel_2(symbol, "ListKeepOks", var_store))
      \* LIST_KEEP_ERRS => list_keep_errs
      [] symbol = "LIST_KEEP_ERRS" ->
            macro_magic_arm(lowlevel_2(symbol, "ListKeepErrs", var_store))
      \* LIST_RANGE => list_range
      [] symbol = "LIST_RANGE" ->
            macro_magic_arm(lowlevel_2(symbol, "ListRange", var_store))
      \* LIST_WALK => list_walk
      [] symbol = "LIST_WALK" -> macro_magic_arm(lowlevel_3(symbol, "ListWalk", var_store))
      \* LIST_WALK_BACKWARDS => list_walk_backwards
      [] symbol = "LIST_WALK_BACKWARDS" ->
            macro_magic_arm(lowlevel_3(symbol, "ListWalkBackwards", var_store))
      \* LIST_WALK_UNTIL => list_walk_until
      [] symbol = "LIST_WALK_UNTIL" ->
            macro_magic_arm(lowlevel_3(symbol, "ListWalkUntil", var_store))
      \* LIST_SORT_WITH => list_sort_with
      [] symbol = "LIST_SORT_WITH" ->
            macro_magic_arm(lowlevel_2(symbol, "ListSortWith", var_store))
      \* LIST_ANY => list_any
      [] symbol = "LIST_ANY" -> macro_magic_arm(lowlevel_2(symbol, "ListAny", var_store))
      [] symbol = "LIST_FIND" -> macro_magic_arm(list_find(symbol, var_store))
      [] symbol = "DICT_LEN" -> macro_magic_arm(dict_len(symbol, var_store))
      [] symbol = "DICT_EMPTY" -> macro_magic_arm(dict_empty(symbol, var_store))
      [] symbol = "DICT_SINGLE" -> macro_magic_arm(dict_single(symbol, var_store))
      \* DICT_INSERT => dict_insert
      [] symbol = "DICT_INSERT" ->
            macro_magic_arm(lowlevel_3(symbol, "DictInsert", var_store))
      [] symbol = "DICT_REMOVE" -> macro_magic_arm(dict_remove(symbol, var_store))
      [] symbol = "DICT_GET" -> macro_magic_arm(dict_get(symbol, var_store))
      [] symbol = "DICT_CONTAINS" -> macro_magic_arm(dict_contains(symbol, var_store))
      [] symbol = "DICT_KEYS" -> macro_magic_arm(dict_keys(symbol, var_store))
      \* DICT_VALUES => dict_values
      [] symbol = "DICT_VALUES" ->
            macro_magic_arm(lowlevel_1(symbol, "DictValues", var_store))
      \* DICT_UNION => dict_union
      [] symbol = "DICT_UNION" ->
            macro_magic_arm(lowlevel_2(symbol, "DictUnion", var_store))
      \* DICT_INTERSECTION => dict_intersection
      [] symbol = "DICT_INTERSECTION" ->
            macro_magic_arm(lowlevel_2(symbol, "DictIntersection", var_store))
      \* DICT_DIFFERENCE => dict_difference
      [] symbol = "DICT_DIFFERENCE" ->
            macro_magic_arm(lowlevel_2(symbol, "DictDifference", var_store))
      \* DICT_WALK => dict_walk
      [] symbol = "DICT_WALK" -> macro_magic_arm(lowlevel_3(symbol, "DictWalk", var_store))
      [] symbol = "SET_EMPTY" -> macro_magic_arm(set_empty(symbol, var_store))
      \* SET_LEN => set_len
      [] symbol = "SET_LEN" -> macro_magic_arm(lowlevel_1(symbol, "DictSize", var_store))
      [] symbol = "SET_SINGLE" -> macro_magic_arm(set_single(symbol, var_store))
      \* SET_UNION => set_union
      [] symbol = "SET_UNION" -> macro_magic_arm(lowlevel_2(symbol, "DictUnion", var_store))
      \* SET_INTERSECTION => set_intersection
      [] symbol = "SET_INTERSECTION" ->
            macro_magic_arm(lowlevel_2(symbol, "DictIntersection", var_store))
      \* SET_DIFFERENCE => set_difference
      [] symbol = "SET_DIFFERENCE" ->
            macro_magic_arm(lowlevel_2(symbol, "DictDifference", var_store))
      [] symbol = "SET_TO_LIST" -> macro_magic_arm(set_to_list(symbol, var_store))
      \* SET_FROM_LIST => set_from_list
      [] symbol = "SET_FROM_LIST" ->
            macro_magic_arm(lowlevel_1(symbol, "SetFromList", var_store))
      [] symbol = "SET_INSERT" -> macro_magic_arm(set_insert(symbol, var_store))
      [] symbol = "SET_REMOVE" -> macro_magic_arm(set_remove(symbol, var_store))
      [] symbol = "SET_CONTAINS" -> macro_magic_arm(set_contains(symbol, var_store))
      [] symbol = "SET_WALK" -> macro_magic_arm(set_walk(symbol, var_store))
      \* NUM_ADD => num_add
      [] symbol = "NUM_ADD" -> macro_magic_arm(num_binop(symbol, var_store, "NumAdd"))
      [] symbol = "NUM_ADD_CHECKED" -> macro_magic_arm(num_add_checked(symbol, var_store))
      \* NUM_ADD_WRAP => num_add_wrap
      [] symbol = "NUM_ADD_WRAP" ->
            macro_magic_arm(num_binop(symbol, var_store, "NumAddWrap"))
      \* NUM_SUB => num_sub
      [] symbol = "NUM_SUB" -> macro_magic_arm(num_binop(symbol, var_store, "NumSub"))
      \* NUM_SUB_WRAP => num_sub_wrap
      [] symbol = "NUM_SUB_WRAP" ->
            macro_magic_arm(num_binop(symbol, var_store, "NumSubWrap"))
      [] symbol = "NUM_SUB_CHECKED" -> macro_magic_arm(num_sub_checked(symbol, var_store))
      \* NUM_MUL => num_mul
      [] symbol = "NUM_MUL" -> macro_magic_arm(num_binop(symbol, var_store, "NumMul"))
      \* NUM_MUL_WRAP => num_mul_wrap
      [] symbol = "NUM_MUL_WRAP" ->
            macro_magic_arm(num_binop(symbol, var_store, "NumMulWrap"))
      [] symbol = "NUM_MUL_CHECKED" -> macro_magic_arm(num_mul_checked(symbol, var_store))
      \* NUM_GT => num_gt
      [] symbol = "NUM_GT" ->
            macro_magic_arm(num_num_other_binop(symbol, var_store, "NumGt"))
      \* NUM_GTE => num_gte
      [] symbol = "NUM_GTE" ->
            macro_magic_arm(num_num_other_binop(symbol, var_store, "NumGte"))
      \* NUM_LT => num_lt
      [] symbol = "NUM_LT" ->
            macro_magic_arm(num_num_other_binop(symbol, var_store, "NumLt"))
      \* NUM_LTE => num_lte
      [] symbol = "NUM_LTE" ->
            macro_magic_arm(num_num_other_binop(symbol, var_store, "NumLte"))
      \* NUM_COMPARE => num_compare
      [] symbol = "NUM_COMPARE" ->
            macro_magic_arm(num_num_other_binop(symbol, var_store, "NumCompare"))
      [] symbol = "NUM_SIN" -> macro_magic_arm(num_sin(symbol, var_store))
      [] symbol = "NUM_COS" -> macro_magic_arm(num_cos(symbol, var_store))
      [] symbol = "NUM_TAN" -> macro_magic_arm(num_tan(symbol, var_store))
      [] symbol = "NUM_DIV_FLOAT" -> macro_magic_arm(num_div_float(symbol, var_store))
      [] symbol = "NUM_DIV_INT" -> macro_magic_arm(num_div_int(symbol, var_store))
      [] symbol = "NUM_DIV_CEIL" -> macro_magic_arm(num_div_ceil(symbol, var_store))
      [] symbol = "NUM_ABS" -> macro_magic_arm(num_abs(symbol, var_store))
      [] symbol = "NUM_NEG" -> macro_magic_arm(num_neg(symbol, var_store))
      [] symbol = "NUM_REM" -> macro_magic_arm(num_rem(symbol, var_store))
      \* NUM_IS_MULTIPLE_OF => num_is_multiple_of
      [] symbol = "NUM_IS_MULTIPLE_OF" ->
            macro_magic_arm(lowlevel_2(symbol, "NumIsMultipleOf", var_store))
      [] symbol = "NUM_SQRT" -> macro_magic_arm(num_sqrt(symbol, var_store))
      [] symbol = "NUM_LOG" -> macro_magic_arm(num_log(symbol, var_store))
      [] symbol = "NUM_ROUND" -> macro_magic_arm(num_round(symbol, var_store))
      [] symbol = "NUM_IS_ODD" -> macro_magic_arm(num_is_odd(symbol, var_store))
      [] symbol = "NUM_IS_EVEN" -> macro_magic_arm(num_is_even(symbol, var_store))
      [] symbol = "NUM_IS_ZERO" -> macro_magic_arm(num_is_zero(symbol, var_store))
      [] symbol = "NUM_IS_POSITIVE" -> macro_magic_arm(num_is_positive(symbol, var_store))
      [] symbol = "NUM_IS_NEGATIVE" -> macro_magic_arm(num_is_negative(symbol, var_store))
      [] symbol = "NUM_TO_FLOAT" -> macro_magic_arm(num_to_float(symbol, var_store))
      [] symbol = "NUM_POW" -> macro_magic_arm(num_pow(symbol, var_store))
      [] symbol = "NUM_CEILING" -> macro_magic_arm(num_ceiling(symbol, var_store))
      [] symbol = "NUM_POW_INT" -> macro_magic_arm(num_pow_int(symbol, var_store))
      [] symbol = "NUM_FLOOR" -> macro_magic_arm(num_floor(symbol, var_store))
      [] symbol = "NUM_ATAN" -> macro_magic_arm(num_atan(symbol, var_store))
      [] symbol = "NUM_ACOS" -> macro_magic_arm(num_acos(symbol, var_store))
      [] symbol = "NUM_ASIN" -> macro_magic_arm(num_asin(symbol, var_store))
      [] symbol = "NUM_BYTES_TO_U16" -> macro_magic_arm(num_bytes_to_u16(symbol, var_store))
      [] symbol = "NUM_BYTES_TO_U32" -> macro_magic_arm(num_bytes_to_u32(symbol, var_store))
      [] symbol = "NUM_MAX_INT" -> macro_magic_arm(num_max_int(symbol, var_store))
      [] symbol = "NUM_MIN_INT" -> macro_magic_arm(num_min_int(symbol, var_store))
      \* NUM_BITWISE_AND => num_bitwise_and
      [] symbol = "NUM_BITWISE_AND" ->
            macro_magic_arm(num_binop(symbol, var_store, "NumBitwiseAnd"))
      \* NUM_BITWISE_XOR => num_bitwise_xor
      [] symbol = "NUM_BITWISE_XOR" ->
            macro_magic_arm(num_binop(symbol, var_store, "NumBitwiseXor"))
      \* NUM_BITWISE_OR => num_bitwise_or
      [] symbol = "NUM_BITWISE_OR" ->
            macro_magic_arm(num_binop(symbol, var_store, "NumBitwiseOr"))
      \* NUM_SHIFT_LEFT => num_shift_left_by
      [] symbol = "NUM_SHIFT_LEFT" ->
            macro_magic_arm(lowlevel_2(symbol, "NumShiftLeftBy", var_store))
      \* NUM_SHIFT_RIGHT => num_shift_right_by
      [] symbol = "NUM_SHIFT_RIGHT" ->
            macro_magic_arm(lowlevel_2(symbol, "NumShiftRightBy", var_store))
      \* NUM_SHIFT_RIGHT_ZERO_FILL => num_shift_right_zf_by
      [] symbol = "NUM_SHIFT_RIGHT_ZERO_FILL" ->
            macro_magic_arm(lowlevel_2(symbol, "NumShiftRightZfBy", var_store))
      \* NUM_INT_CAST => num_int_cast
      [] symbol = "NUM_INT_CAST" ->
            macro_magic_arm(lowlevel_1(symbol, "NumIntCast", var_store))
      [] symbol = "NUM_MAX_I128" -> macro_magic_arm(num_max_i128(symbol, var_store))
      [] symbol = "RESULT_MAP" -> macro_magic_arm(result_map(symbol, var_store))
      [] symbol = "RESULT_MAP_ERR" -> macro_magic_arm(result_map_err(symbol, var_store))
      [] symbol = "RESULT_AFTER" -> macro_magic_arm(result_after(symbol, var_store))
      [] symbol = "RESULT_WITH_DEFAULT" ->
            macro_magic_arm(result_with_default(symbol, var_store))
      [] OTHER -> macro_magic_default(var_store)

\* builtin_defs_map: debug_assert!(symbol.is_builtin()) stops a build with
\* debug assertions before the table is consulted.
builtin_defs_map(symbol, var_store, debug_assertions) ==
    IF debug_assertions /\ ~is_builtin(symbol)
    THEN Outcome(TRUE, None, var_store)
    ELSE macro_magic(symbol, var_store)

(***************************************************************************)
(* Reading a definition: its variable slots, its nodes, and the same tree  *)
(* with every variable slot rewritten.                                     *)
(***************************************************************************)
RECURSIVE Flatten(_)
Flatten(ss) == IF Len(ss) = 0 THEN <<>> ELSE Head(ss) \o Flatten(Tail(ss))

\* The variable slots of a pattern, in field order.
RECURSIVE PatternVars(_)
PatternVars(p) ==
    IF p.k = "AppliedTag"
    THEN <<p.whole_var, p.ext_var>>
            \o Flatten([j \in 1..Len(p.arguments) |->
                    <<p.arguments[j][1]>> \o PatternVars(p.arguments[j][2].value)])
    ELSE <<>>

\* The variable slots a node holds itself (not those of its sub-expressions).
OwnVars(e) ==
    CASE e.k \in {"Int", "Float"} -> <<e.num_var, e.precision_var>>
      [] e.k = "Num" -> <<e.num_var>>
      [] e.k = "RunLowLevel" -> [j \in 1..Len(e.args) |-> e.args[j][1]] \o <<e.ret_var>>
      [] e.k = "If" -> <<e.cond_var, e.branch_var>>
      [] e.k = "When" ->
            <<e.cond_var, e.expr_var>>
                \o Flatten([j \in 1..Len(e.branches) |->
                        Flatten([i \in 1..Len(e.branches[j].patterns) |->
                            PatternVars(e.branches[j].patterns[i].value)])])
      [] e.k = "LetNonRec" ->
            <<e.var, e.def.expr_var>> \o PatternVars(e.def.loc_pattern.value)
      [] e.k = "Access" -> <<e.record_var, e.ext_var, e.field_var>>
      [] e.k = "Tag" ->
            <<e.variant_var, e.ext_var>>
                \o [j \in 1..Len(e.arguments) |-> e.arguments[j][1]]
      [] e.k = "Closure" ->
            <<e.function_type, e.closure_type, e.closure_ext_var, e.return_type>>
                \o [j \in 1..Len(e.captured_symbols) |-> e.captured_symbols[j][2]]
                \o Flatten([j \in 1..Len(e.arguments) |->
                        <<e.arguments[j][1]>> \o PatternVars(e.arguments[j][2].value)])
      [] e.k = "Call" ->
            <<e.fn[1], e.fn[3], e.fn[4]>> \o [j \in 1..Len(e.args) |-> e.args[j][1]]
      [] e.k = "List" -> <<e.elem_var>>
      [] OTHER -> <<>>

\* The direct sub-expressions of a node, in field order.
Children(e) ==
    CASE e.k = "RunLowLevel" -> [j \in 1..Len(e.args) |-> e.args[j][2]]
      [] e.k = "If" ->
            Flatten([j \in 1..Len(e.branches) |->
                <<e.branches[j][1].value, e.branches[j][2].value>>])
                \o <<e.final_else.value>>
      [] e.k = "When" ->
            <<e.loc_cond.value>>
                \o [j \in 1..Len(e.branches) |-> e.branches[j].value.value]
      [] e.k = "LetNonRec" -> <<e.def.loc_expr.value, e.cont.value>>
      [] e.k = "Access" -> <<e.loc_expr.value>>
      [] e.k = "Tag" -> [j \in 1..Len(e.arguments) |-> e.arguments[j][2].value]
      [] e.k = "Closure" -> <<e.loc_body.value>>
      [] e.k = "Call" ->
            <<e.fn[2].value>> \o [j \in 1..Len(e.args) |-> e.args[j][2].value]
      [] e.k = "List" -> [j \in 1..Len(e.loc_elems) |-> e.loc_elems[j].value]
      [] OTHER -> <<>>

\* Every expression node of a tree, the root first.
RECURSIVE Nodes(_)
Nodes(e) ==
    LET cs == Children(e)
    IN <<e>> \o Flatten([j \in 1..Len(cs) |-> Nodes(cs[j])])

\* Every variable slot of a definition, in a fixed traversal order.
DefNodes(def) == Nodes(def.loc_expr.value)
DefVars(def) ==
    LET ns == DefNodes(def)
    IN <<def.expr_var>> \o PatternVars(def.loc_pattern.value)
            \o Flatten([j \in 1..Len(ns) |-> OwnVars(ns[j])])

Range(s) == {s[j] : j \in 1..Len(s)}
\* The tree with every variable slot v replaced by f[v].
RECURSIVE RenamePattern(_, _)
RenamePattern(p, f) ==
    IF p.k = "AppliedTag"
    THEN [k |-> "AppliedTag",
          whole_var |-> f[p.whole_var],
          ext_var |-> f[p.ext_var],
          tag_name |-> p.tag_name,
          arguments |-> [j \in 1..Len(p.arguments) |->
              <<f[p.arguments[j][1]],
                [region |-> p.arguments[j][2].region,
                 value |-> RenamePattern(p.arguments[j][2].value, f)]>>]]
    ELSE p

RenameLocPattern(l, f) == [region |-> l.region, value |-> RenamePattern(l.value, f)]

RECURSIVE RenameExpr(_, _)
RenameLoc(l, f) == [region |-> l.region, value |-> RenameExpr(l.value, f)]

RenameDef(def, f) ==
    [def EXCEPT !.expr_var = f[def.expr_var],
                !.loc_pattern = RenameLocPattern(def.loc_pattern, f),
                !.loc_expr = RenameLoc(def.loc_expr, f)]

RenameExpr(e, f) ==
    CASE e.k \in {"Int", "Float"} ->
            [e EXCEPT !.num_var = f[e.num_var], !.precision_var = f[e.precision_var]]
      [] e.k = "Num" -> [e EXCEPT !.num_var = f[e.num_var]]
      [] e.k = "RunLowLevel" ->
            [e EXCEPT !.ret_var = f[e.ret_var],
                      !.args = [j \in 1..Len(e.args) |->
                                   <<f[e.args[j][1]], RenameExpr(e.args[j][2], f)>>]]
      [] e.k = "If" ->
            [e EXCEPT !.cond_var = f[e.cond_var],
                      !.branch_var = f[e.branch_var],
                      !.branches = [j \in 1..Len(e.branches) |->
                                       <<RenameLoc(e.branches[j][1], f),
                                         RenameLoc(e.branches[j][2], f)>>],
                      !.final_else = RenameLoc(e.final_else, f)]
      [] e.k = "When" ->
            [e EXCEPT !.cond_var = f[e.cond_var],
                      !.expr_var = f[e.expr_var],
                      !.loc_cond = RenameLoc(e.loc_cond, f),
                      !.branches = [j \in 1..Len(e.branches) |->
                          [patterns |-> [i \in 1..Len(e.branches[j].patterns) |->
                                            RenameLocPattern(e.branches[j].patterns[i], f)],
                           value |-> RenameLoc(e.branches[j].value, f),
                           guard |-> e.branches[j].guard]]]
      [] e.k = "LetNonRec" ->
            [e EXCEPT !.var = f[e.var],
                      !.def = RenameDef(e.def, f),
                      !.cont = RenameLoc(e.cont, f)]
      [] e.k = "Access" ->
            [e EXCEPT !.record_var = f[e.record_var],
                      !.ext_var = f[e.ext_var],
                      !.field_var = f[e.field_var],
                      !.loc_expr = RenameLoc(e.loc_expr, f)]
      [] e.k = "Tag" ->
            [e EXCEPT !.variant_var = f[e.variant_var],
                      !.ext_var = f[e.ext_var],
                      !.arguments = [j \in 1..Len(e.arguments) |->
                                        <<f[e.arguments[j][1]],
                                          RenameLoc(e.arguments[j][2], f)>>]]
      [] e.k = "Closure" ->
            [e EXCEPT !.function_type = f[e.function_type],
                      !.closure_type = f[e.closure_type],
                      !.closure_ext_var = f[e.closure_ext_var],
                      !.return_type = f[e.return_type],
                      !.captured_symbols = [j \in 1..Len(e.captured_symbols) |->
                          <<e.captured_symbols[j][1], f[e.captured_symbols[j][2]]>>],
                      !.arguments = [j \in 1..Len(e.arguments) |->
                          <<f[e.arguments[j][1]], RenameLocPattern(e.arguments[j][2], f)>>],
                      !.loc_body = RenameLoc(e.loc_body, f)]
      [] e.k = "Call" ->
            [e EXCEPT !.fn = <<f[e.fn[1]], RenameLoc(e.fn[2], f), f[e.fn[3]], f[e.fn[4]]>>,
                      !.args = [j \in 1..Len(e.args) |->
                                   <<f[e.args[j][1]], RenameLoc(e.args[j][2], f)>>]]
      [] e.k = "List" ->
            [e EXCEPT !.elem_var = f[e.elem_var],
                      !.loc_elems = [j \in 1..Len(e.loc_elems) |->
                                        RenameLoc(e.loc_elems[j], f)]]
      [] OTHER -> e

\* d1 and d2 are equal after one injective renaming of d1's variables that
\* leaves the reserved variables alone and maps no minted variable to one.
AlphaEq(d1, d2) ==
    LET s1 == DefVars(d1)
        s2 == DefVars(d2)
        f == [v \in Range(s1) |-> s2[CHOOSE j \in 1..Len(s1) : s1[j] = v]]
    IN /\ Len(s1) = Len(s2)
       /\ \A j \in 1..Len(s1) : f[s1[j]] = s2[j]
       /\ \A v, w \in Range(s1) : f[v] = f[w] => v = w
       /\ \A v \in Range(s1) : (v \in ReservedVariables \/ f[v] \in ReservedVariables) => f[v] = v
       /\ RenameDef(d1, f) = d2
(***************************************************************************)
(* Running a definition.  Canonical expressions are evaluated strictly,    *)
(* arguments left to right; every RunLowLevel that is evaluated is         *)
(* appended to the trace with the values it was given.  The low-level      *)
(* operations themselves are an external contract: the comparisons, the    *)
(* list length, the list read and the checked arithmetic are interpreted;  *)
(* every other operation yields an uninterpreted value naming the          *)
(* operation and its arguments.                                            *)
(***************************************************************************)
NumV(n) == [t |-> "Num", n |-> n]
BoolV(b) == [t |-> "Bool", b |-> b]
ListV(elems) == [t |-> "List", elems |-> elems]
RecordV(fields) == [t |-> "Record", fields |-> fields]
TagV(name, args) == [t |-> "Tag", name |-> name, args |-> args]
StrV(s) == [t |-> "Str", s |-> s]
PrimV(op, args) == [t |-> "Prim", op |-> op, args |-> args]
\* A function of the caller: table gives its result for the argument tuples
\* it is defined on, any other application stays an unevaluated result.
FnV(name, table) == [t |-> "Fn", name |-> name, table |-> table]

\* The machine integers of the checked arithmetic reach just beyond the
\* numbers a run is given, so that the extremes overflow.
\* The naturals of a run are NatBits wide.
NatBits == 4
IntMax == MaxNum + 1
IntMin == -IntMax - 1
Wrap(x) == ((x - IntMin) % (IntMax - IntMin + 1)) + IntMin
Checked(x) == RecordV([a |-> NumV(Wrap(x)), b |-> BoolV(x < IntMin \/ x > IntMax)])

\* The value of a literal of one or two digits.
LitValue(x) ==
    LET mag == IF Len(x.digits) = 1 THEN x.digits[1] ELSE 10 * x.digits[1] + x.digits[2]
    IN IF x.neg THEN -mag ELSE mag

\* The result of one low-level operation.  ext is what lies outside the
\* definition: ext.read is what a read outside a list returns, ext.decode
\* the record a decoding or lookup primitive answers with.  The numbers a
\* run is given are small enough that NumAdd does not overflow; NumSubWrap
\* wraps within the naturals below 2^NatBits.
LowLevelResult(op, a, ext) ==
    CASE op = "NumLt" -> BoolV(a[1].n < a[2].n)
      [] op = "NumLte" -> BoolV(a[1].n <= a[2].n)
      [] op = "NumGt" -> BoolV(a[1].n > a[2].n)
      [] op = "NumGte" -> BoolV(a[1].n >= a[2].n)
      [] op = "Eq" -> BoolV(a[1] = a[2])
      [] op = "NotEq" -> BoolV(a[1] # a[2])
      [] op = "ListLen" -> NumV(Len(a[1].elems))
      [] op = "ListGetUnsafe" ->
            IF a[2].n >= 0 /\ a[2].n < Len(a[1].elems)
            THEN a[1].elems[a[2].n + 1]
            ELSE ext.read
      [] op \in {"StrFromUtf8", "StrFromUtf8Range", "DictGetUnsafe", "ListFindUnsafe"} ->
            ext.decode
      [] op = "ListSet" ->
            IF a[2].n >= 0 /\ a[2].n < Len(a[1].elems)
            THEN ListV([a[1].elems EXCEPT ![a[2].n + 1] = a[3]])
            ELSE PrimV(op, a)
      [] op = "ListConcat" -> ListV(a[1].elems \o a[2].elems)
      [] op = "NumAdd" -> NumV(a[1].n + a[2].n)
      [] op = "NumSubWrap" -> NumV((a[1].n - a[2].n) % (2 ^ NatBits))
      [] op = "NumIntCast" -> a[1]
      [] op = "NumAddChecked" -> Checked(a[1].n + a[2].n)
      [] op = "NumSubChecked" -> Checked(a[1].n - a[2].n)
      [] op = "NumMulChecked" -> Checked(a[1].n * a[2].n)
      [] op = "NumRemUnchecked" ->
            \* the remainder takes the sign of the dividend
            LET m == IF a[2].n < 0 THEN -a[2].n ELSE a[2].n
            IN IF m = 0 THEN PrimV(op, a)
               ELSE IF a[1].n >= 0 THEN NumV(a[1].n % m) ELSE NumV(-((-a[1].n) % m))
      [] OTHER -> PrimV(op, a)

Evaluated(value, trace) == [value |-> value, trace |-> trace]

RECURSIVE Eval(_, _, _)
RECURSIVE Apply(_, _, _)
\* The function value f applied to args: a closure runs its body with its
\* parameters bound over the environment it was built in; a function of the
\* caller is recorded in the trace as a Call.
Apply(f, args, ext) ==
    IF f.t = "Closure"
    THEN LET params == [j \in 1..Len(f.e.arguments) |-> f.e.arguments[j][2].value.symbol]
             bound == [s \in Range(params) |->
                          args[CHOOSE j \in 1..Len(params) : params[j] = s]]
         IN Eval(f.e.loc_body.value, bound @@ f.env, ext)
    ELSE Evaluated(IF args \in DOMAIN f.table
                   THEN f.table[args]
                   ELSE PrimV("Returned", <<f>> \o args),
                   <<[op |-> "Call", args |-> <<f>> \o args]>>)

\* The expressions es[j], es[j + 1], ... evaluated in env in that order:
\* their values and the joined trace.
RECURSIVE EvalSeq(_, _, _, _)
EvalSeq(es, j, env, ext) ==
    IF j > Len(es)
    THEN Evaluated(<<>>, <<>>)
    ELSE LET x == Eval(es[j], env, ext)
             rest == EvalSeq(es, j + 1, env, ext)
         IN Evaluated(<<x.value>> \o rest.value, x.trace \o rest.trace)

\* if / else if / else from branch j on.
RECURSIVE EvalIf(_, _, _, _)
EvalIf(e, j, env, ext) ==
    IF j > Len(e.branches)
    THEN Eval(e.final_else.value, env, ext)
    ELSE LET c == Eval(e.branches[j][1].value, env, ext)
             r == IF c.value.b
                  THEN Eval(e.branches[j][2].value, env, ext)
                  ELSE EvalIf(e, j + 1, env, ext)
         IN Evaluated(r.value, c.trace \o r.trace)

\* ListWalk from element j on: step takes the state and the element and
\* returns the next state, the elements are taken first to last.
RECURSIVE Walk(_, _, _, _, _)
Walk(elems, j, state, step, ext) ==
    IF j > Len(elems)
    THEN Evaluated(state, <<>>)
    ELSE LET r == Apply(step, <<state, elems[j]>>, ext)
             rest == Walk(elems, j + 1, r.value, step, ext)
         IN Evaluated(rest.value, r.trace \o rest.trace)

Eval(e, env, ext) ==
    CASE e.k = "Var" -> Evaluated(env[e.symbol], <<>>)
      [] e.k = "Int" -> Evaluated(NumV(LitValue(e.i)), <<>>)
      [] e.k = "Float" -> Evaluated(NumV(LitValue(e.f)), <<>>)
      [] e.k = "Num" -> Evaluated(NumV(LitValue(e.i)), <<>>)
      [] e.k = "RunLowLevel" ->
            LET a == EvalSeq([j \in 1..Len(e.args) |-> e.args[j][2]], 1, env, ext)
                called == a.trace \o <<[op |-> e.op, args |-> a.value]>>
            IN IF e.op = "ListWalk"
               THEN LET w == Walk(a.value[1].elems, 1, a.value[2], a.value[3], ext)
                    IN Evaluated(w.value, called \o w.trace)
               ELSE Evaluated(LowLevelResult(e.op, a.value, ext), called)
      [] e.k = "If" -> EvalIf(e, 1, env, ext)
      [] e.k = "LetNonRec" ->
            LET bound == Eval(e.def.loc_expr.value, env, ext)
                cont == Eval(e.cont.value,
                             (e.def.loc_pattern.value.symbol :> bound.value) @@ env, ext)
            IN Evaluated(cont.value, bound.trace \o cont.trace)
      [] e.k = "Access" ->
            LET r == Eval(e.loc_expr.value, env, ext)
            IN Evaluated(r.value.fields[e.field], r.trace)
      [] e.k = "Tag" ->
            LET a == EvalSeq([j \in 1..Len(e.arguments) |-> e.arguments[j][2].value],
                             1, env, ext)
            IN Evaluated(TagV(e.name.name, a.value), a.trace)
      [] e.k = "List" ->
            LET a == EvalSeq([j \in 1..Len(e.loc_elems) |-> e.loc_elems[j].value],
                             1, env, ext)
            IN Evaluated(ListV(a.value), a.trace)
      [] e.k = "Closure" -> Evaluated([t |-> "Closure", e |-> e, env |-> env], <<>>)
      [] e.k = "Call" ->
            LET f == Eval(e.fn[2].value, env, ext)
                a == EvalSeq([j \in 1..Len(e.args) |-> e.args[j][2].value], 1, env, ext)
                r == Apply(f.value, a.value, ext)
            IN Evaluated(r.value, f.trace \o a.trace \o r.trace)
      [] e.k = "When" ->
            \* The first branch whose pattern matches the value decides.  The
            \* patterns of the synthesized definitions are one tag applied to
            \* identifiers or underscores.
            LET c == Eval(e.loc_cond.value, env, ext)
                pattern(j) == e.branches[j].patterns[1].value
                matches(j) ==
                    /\ c.value.t = "Tag"
                    /\ pattern(j).k = "AppliedTag"
                    /\ pattern(j).tag_name.name = c.value.name
                    /\ Len(pattern(j).arguments) = Len(c.value.args)
                named(j) ==
                    {i \in 1..Len(pattern(j).arguments) :
                        pattern(j).arguments[i][2].value.k = "Identifier"}
                bound(j) ==
                    [s \in {pattern(j).arguments[i][2].value.symbol : i \in named(j)} |->
                        c.value.args[CHOOSE i \in named(j) :
                                        pattern(j).arguments[i][2].value.symbol = s]]
            IN IF \E j \in 1..Len(e.branches) : matches(j)
               THEN LET j == CHOOSE j \in 1..Len(e.branches) :
                                matches(j) /\ \A i \in 1..(j - 1) : ~matches(i)
                        r == Eval(e.branches[j].value.value, bound(j) @@ env, ext)
                    IN Evaluated(r.value, c.trace \o r.trace)
               ELSE Evaluated(PrimV("Unmatched", <<c.value>>), c.trace)
      [] OTHER -> Evaluated(PrimV(e.k, <<>>), <<>>)

\* The top-level closure of def applied to args.
ApplyDef(def, args, ext) ==
    LET closure == def.loc_expr.value
        env == [s \in {closure.arguments[j][2].value.symbol :
                            j \in 1..Len(closure.arguments)} |->
                   args[CHOOSE j \in 1..Len(closure.arguments) :
                            closure.arguments[j][2].value.symbol = s]]
    IN Eval(closure.loc_body.value, env, ext)
(***************************************************************************)
(* The state machine: a compilation, owning one VarStore, calls the        *)
(* dispatcher again and again; the program it compiled then runs the       *)
(* definition it asked for last.  A second specification, Interleaved,     *)
(* has two compilations, each owning a VarStore, take turns.               *)
(***************************************************************************)
VARIABLES
    debug_assertions,   \* the build has debug assertions enabled
    var_store,          \* the next handle the compilation's store issues
    minted,             \* the handles the dispatcher calls have minted so far
    last,               \* the most recent dispatcher call, or NoCall
    run,                \* the most recent run of last's definition, or NoRun
    compilations        \* Interleaved: each compilation's calls so far

vars == <<debug_assertions, var_store, minted, last, run, compilations>>

NoCall == [called |-> FALSE]
NoRun == [ran |-> FALSE]

Init ==
    /\ debug_assertions \in BOOLEAN
    /\ var_store = FIRST_USER_SPACE_VAR
    /\ minted = {}
    /\ last = NoCall
    /\ run = NoRun
    /\ compilations = <<>>

\* A panic ends the compilation's process.
Panicked == last.called /\ last.panicked

\* The compilation calls builtin_defs_map(symbol, &mut var_store).
Synthesize(symbol) ==
    LET out == builtin_defs_map(symbol, var_store, debug_assertions)
    IN /\ ~Panicked
       /\ ~run.ran
       /\ var_store <= MaxStart
       /\ var_store' = out.var_store
       /\ minted' = minted \cup (var_store .. out.var_store - 1)
       /\ last' = [called |-> TRUE, symbol |-> symbol, before |-> var_store,
                   earlier |-> minted, panicked |-> out.panicked, def |-> out.def]
       /\ UNCHANGED <<debug_assertions, run, compilations>>

\* The numbers, list elements and lists a run is given.
Nums == {NumV(n) : n \in -MaxNum..MaxNum}
Elems == {NumV(n) : n \in 0..MaxElem}
Lists == {ListV(l) : l \in UNION {[1..n -> Elems] : n \in 0..MaxListLen}}
Indices == {NumV(n) : n \in 0..MaxListLen + 1}

\* The { start, count } records a range decoding is given.
Ranges == {RecordV([start |-> start, count |-> count]) : start \in Indices, count \in Indices}

\* The results handed to the result combinators.
Results == {TagV(name, <<x>>) : name \in {"Ok", "Err"}, x \in Nums}

\* The mappers handed to List.joinMap: every element has one of three
\* lists as its image.
Mappers ==
    {FnV("mapper", table) :
        table \in [{<<x>> : x \in Elems} ->
                      {ListV(<<>>), ListV(<<NumV(0)>>), ListV(<<NumV(1), NumV(0)>>)}]}

\* The definitions that are run, with the arguments they are given.
NumNumSymbols ==
    {"NUM_ADD_CHECKED", "NUM_SUB_CHECKED", "NUM_MUL_CHECKED",
     "NUM_DIV_FLOAT", "NUM_DIV_INT", "NUM_DIV_CEIL", "NUM_REM"}
RunArgs(symbol) ==
    CASE symbol \in NumNumSymbols -> Nums \X Nums
      [] symbol = "LIST_GET" -> Lists \X Indices
      [] symbol \in {"NUM_BYTES_TO_U16", "NUM_BYTES_TO_U32"} ->
            \* lists long enough for a decoder of four bytes to succeed
            (Lists \cup {ListV(l) : l \in [1..(MaxListLen + 2) -> Elems]}) \X Indices
      [] symbol \in {"LIST_FIRST", "LIST_LAST", "STR_FROM_UTF8", "LIST_MIN", "LIST_MAX"} ->
            {<<list>> : list \in Lists}
      [] symbol = "STR_FROM_UTF8_RANGE" -> Lists \X Ranges
      [] symbol = "LIST_SET" -> Lists \X Indices \X Elems
      [] symbol = "DICT_GET" -> {PrimV("DictEmpty", <<>>)} \X Elems
      [] symbol = "LIST_FIND" -> Lists \X {FnV("predicate", <<>>)}
      [] symbol \in {"NUM_SQRT", "NUM_LOG"} -> {<<x>> : x \in Nums}
      [] symbol \in {"NUM_IS_ODD", "NUM_IS_EVEN"} -> {<<NumV(n)>> : n \in IntMin..IntMax}
      [] symbol = "RESULT_WITH_DEFAULT" -> Results \X Nums
      [] symbol = "LIST_JOIN_MAP" -> Lists \X Mappers
      [] symbol \in {"RESULT_MAP", "RESULT_MAP_ERR", "RESULT_AFTER"} ->
            Results \X {FnV("f", <<>>)}
      [] OTHER -> {}

\* The records the UTF-8 decoding primitive answers with: the text, or the
\* place and the kind of the first problem.
Decodes ==
    {RecordV([a_byteIndex |-> NumV(0), b_str |-> StrV("text"),
              c_isOk |-> BoolV(TRUE), d_problem |-> NumV(0)])}
    \cup {RecordV([a_byteIndex |-> NumV(at), b_str |-> StrV(""),
                   c_isOk |-> BoolV(FALSE), d_problem |-> NumV(at + 1)]) : at \in 0..1}

\* What lies outside a definition when it runs: read is what a read outside
\* a list returns, decode the record a decoding or lookup primitive answers
\* with.  Only the definitions that read a list, decode or look up are given
\* a choice.
Externals(symbol) ==
    [read : IF symbol \in {"LIST_GET", "LIST_FIRST", "LIST_LAST"}
            THEN Elems
            ELSE {NumV(0)},
     decode : CASE symbol \in {"STR_FROM_UTF8", "STR_FROM_UTF8_RANGE"} -> Decodes
                [] symbol = "DICT_GET" ->
                      {RecordV([value |-> v, zflag |-> BoolV(b)]) : v \in Elems, b \in BOOLEAN}
                [] symbol = "LIST_FIND" ->
                      {RecordV([value |-> v, found |-> BoolV(b)]) : v \in Elems, b \in BOOLEAN}
                [] OTHER -> {RecordV([c_isOk |-> BoolV(TRUE)])}]

\* The compiled program applies the definition synthesized last to args.  A
\* run ends the behaviour: a later run would start from the same definition.
RunDef(args, ext) ==
    /\ last.called
    /\ ~run.ran
    /\ last.def.some
    /\ last.before <= MaxRunStart
    /\ args \in RunArgs(last.symbol)
    /\ LET r == ApplyDef(last.def.value, args, ext)
       IN run' = [ran |-> TRUE, args |-> args, ext |-> ext,
                   value |-> r.value, trace |-> r.trace]
    /\ UNCHANGED <<debug_assertions, var_store, minted, last, compilations>>

\* Before the first call there is no definition to run ("USER_MAIN" never
\* has one).
Next ==
    \/ \E symbol \in Symbol : Synthesize(symbol)
    \/ LET symbol == IF last.called THEN last.symbol ELSE "USER_MAIN"
       IN \E args \in RunArgs(symbol), ext \in Externals(symbol) : RunDef(args, ext)

Spec == Init /\ [][Next]_vars

\* What the call recorded in last minted.
MintedByLast == last.before .. var_store - 1
\* The body of the top-level closure of a definition.
Body(def) == def.loc_expr.value.loc_body.value

(***************************************************************************)
(* Two compilations.  Each owns one VarStore, both stores start where a    *)
(* new store starts, and the compilations call the dispatcher in any       *)
(* order, each passing its own store.                                      *)
(***************************************************************************)
\* Each compilation makes at most MaxCalls calls.
MaxCalls == 2
Compilation == {1, 2}
\* The identities the two compilations ask for: builtins that mint
\* different numbers of variables, the annotated Num.maxI128, and a helper
\* name the table has no arm for.
AskedSymbols == {"BOOL_AND", "LIST_GET", "NUM_MAX_I128", "LIST_MIN_LT"}

\* A faulty call, kept for comparison: every call goes through the store
\* of the first compilation.
builtin_defs_map_on_first(stores, owner, symbol, debug) ==
    LET out == builtin_defs_map(symbol, stores[1], debug)
    IN [out |-> out, stores |-> [stores EXCEPT ![1] = out.var_store]]

\* builtin_defs_map(symbol, &mut stores[owner]): the call reads and
\* advances the store it is passed and no other.
builtin_defs_map_on(stores, owner, symbol, debug) ==
    LET out == builtin_defs_map(symbol, stores[owner], debug)
    IN [out |-> out, stores |-> [stores EXCEPT ![owner] = out.var_store]]

\* The stores of the compilations.
Stores == [c \in DOMAIN compilations |-> compilations[c].var_store]

InterleavedInit ==
    /\ debug_assertions \in BOOLEAN
    /\ var_store = FIRST_USER_SPACE_VAR
    /\ minted = {}
    /\ last = NoCall
    /\ run = NoRun
    /\ compilations =
            [c \in Compilation |-> [var_store |-> FIRST_USER_SPACE_VAR, calls |-> <<>>]]

\* Compilation c calls builtin_defs_map(symbol, &mut its store).
Ask(c, symbol) ==
    LET call == builtin_defs_map_on(Stores, c, symbol, debug_assertions)
    IN /\ Len(compilations[c].calls) < MaxCalls
       /\ compilations' =
            [d \in Compilation |->
                [var_store |-> call.stores[d],
                 calls |-> IF d = c
                           THEN Append(compilations[d].calls,
                                       [symbol |-> symbol, out |-> call.out])
                           ELSE compilations[d].calls]]
       /\ UNCHANGED <<debug_assertions, var_store, minted, last, run>>

InterleavedNext == \E c \in Compilation, symbol \in AskedSymbols : Ask(c, symbol)

Interleaved == InterleavedInit /\ [][InterleavedNext]_vars
(***************************************************************************)
(* Properties.                                                             *)
(***************************************************************************)
\* The definition the last call returned.
LastDef == last.def.value
\* The last call returned a definition.  It is looked at before it is run:
\* a run changes neither the definition nor the store.
Defined == last.called /\ last.def.some /\ ~run.ran

C2_NonBuiltinUndefined ==
    (last.called /\ ~is_builtin(last.symbol)) =>
        /\ ~last.def.some
        /\ last.panicked <=> debug_assertions
        /\ var_store = last.before

C2_Witness ==
    /\ last.called
    /\ ~is_builtin(last.symbol)
    /\ ~debug_assertions
    /\ ~last.panicked
    /\ last.def = None

\* A second store stands this far beyond the store of the call it is
\* compared with.
MaxSeedGap == 2
OtherStores == {last.before + gap : gap \in 1..MaxSeedGap}

\* C3: the definition a dispatch-table identity gets from a store standing at
\* one counter and the definition it gets from a store standing at another
\* are equal after one injective renaming of the freshly minted variables,
\* and both calls mint the same number of variables.
C3_AlphaDeterministic ==
    (Defined /\ last.symbol \in DispatchKeys) =>
        \A other_store \in OtherStores :
            LET other == builtin_defs_map(last.symbol, other_store, debug_assertions)
            IN /\ other.def.some
               /\ AlphaEq(LastDef, other.def.value)
               /\ other.var_store - other_store = var_store - last.before

C3_Witness ==
    /\ Defined
    /\ last.symbol = "STR_FROM_UTF8_RANGE"
    /\ last.before > FIRST_USER_SPACE_VAR
    /\ var_store - last.before > MaxSeedGap

\* C4: every variable in a returned definition was minted during the call
\* that returned it, except the reserved variables NAT, NATURAL and
\* EMPTY_RECORD; no variable minted by an earlier call appears in it.
C4_OnlyOwnVariables ==
    Defined =>
        /\ Range(DefVars(LastDef)) \subseteq
                MintedByLast \cup {Variable_NAT, Variable_NATURAL, Variable_EMPTY_RECORD}
        /\ Range(DefVars(LastDef)) \cap last.earlier = {}

C4_Witness ==
    /\ Defined
    /\ last.earlier # {}
    /\ Range(DefVars(LastDef)) \cap ReservedVariables # {}
    /\ Range(DefVars(LastDef)) \cap MintedByLast # {}

\* The synthesizers of Bool.isEq, Bool.isNotEq and the numeric comparisons.
ComparisonSymbols ==
    {"BOOL_EQ", "BOOL_NEQ", "NUM_GT", "NUM_GTE", "NUM_LT", "NUM_LTE", "NUM_COMPARE"}

\* C5: over any sequence of calls no handle is minted twice, and two slots
\* hold the same variable only by reuse of one minted handle: a definition
\* holds as many distinct minted variables as its call minted.  The
\* comparisons give both operands one variable and the result another.
C5_NoHandleTwice ==
    /\ last.called =>
        /\ MintedByLast \cap last.earlier = {}
        /\ minted = last.earlier \cup MintedByLast
        /\ \A v \in minted : v >= FIRST_USER_SPACE_VAR /\ v < var_store
    /\ Defined =>
        Cardinality(Range(DefVars(LastDef)) \ ReservedVariables) = Cardinality(MintedByLast)
    /\ (Defined /\ last.symbol \in ComparisonSymbols) =>
        LET closure == LastDef.loc_expr.value
            body == closure.loc_body.value
        IN /\ Len(closure.arguments) = 2
           /\ closure.arguments[1][1] = closure.arguments[2][1]
           /\ body.k = "RunLowLevel"
           /\ body.args[1][1] = closure.arguments[1][1]
           /\ body.args[2][1] = closure.arguments[1][1]
           /\ body.ret_var # closure.arguments[1][1]
           /\ closure.return_type = body.ret_var

C5_Witness ==
    /\ Defined
    /\ last.symbol = "NUM_LT"
    /\ last.earlier # {}
    /\ Cardinality(MintedByLast) > 1

\* How often v occurs among the slots s.
Occurrences(s, v) == Cardinality({j \in 1..Len(s) : s[j] = v})
\* The tag constructions of a definition.
TagNodes(def) == SelectSeq(DefNodes(def), LAMBDA e : e.k = "Tag")

CheckedSymbols == {"NUM_ADD_CHECKED", "NUM_SUB_CHECKED", "NUM_MUL_CHECKED"}
DivisionSymbols == {"NUM_DIV_FLOAT", "NUM_DIV_INT", "NUM_DIV_CEIL", "NUM_REM"}
ListAccessSymbols == {"LIST_GET", "LIST_FIRST", "LIST_LAST"}
ByteDecoderSymbols == {"NUM_BYTES_TO_U16", "NUM_BYTES_TO_U32"}
Utf8Symbols == {"STR_FROM_UTF8", "STR_FROM_UTF8_RANGE"}
SafeWrapperSymbols ==
    CheckedSymbols \cup DivisionSymbols \cup ListAccessSymbols \cup ByteDecoderSymbols
        \cup {"NUM_SQRT", "NUM_LOG"} \cup Utf8Symbols

\* e is the tag name applied to arity arguments.
IsTag(e, name, arity) == e.k = "Tag" /\ e.name.name = name /\ Len(e.arguments) = arity
\* e is Err wrapping a tag of the given arity.
IsErrOf(e, arity) ==
    /\ e.k = "Tag"
    /\ e.name.name = "Err"
    /\ Len(e.arguments) = 1
    /\ e.arguments[1][2].value.k = "Tag"
    /\ Len(e.arguments[1][2].value.arguments) = arity
\* e is a conditional with one guard and one else branch.
IsTwoWay(e) == e.k = "If" /\ Len(e.branches) = 1
Guard(e) == e.branches[1][1].value
Then(e) == e.branches[1][2].value
Else(e) == e.final_else.value
\* e is a call of one of the low-level operations ops.
IsLowLevel(e, ops) == e.k = "RunLowLevel" /\ e.op \in ops
\* e reads field of the record bound to symbol.
IsFieldOf(e, field, symbol) ==
    e.k = "Access" /\ e.field = field /\ e.loc_expr.value = Var(symbol)

\* If(guard, Ok(_), Err(tag)) with the guard one of the comparisons ops.
IsGuardedOk(e, ops) ==
    /\ IsTwoWay(e)
    /\ IsLowLevel(Guard(e), ops)
    /\ Len(Guard(e).args) = 2
    /\ IsTag(Then(e), "Ok", 1)
    /\ IsErrOf(Else(e), 0)

\* C7, as stated: the body of every safe wrapper is exactly
\* If(guard, success, failure) with the guard a strict relational or
\* equality comparison and the failure Err wrapping a tag without arguments.
C7_ExactShape ==
    (Defined /\ last.symbol \in SafeWrapperSymbols) =>
        IsGuardedOk(Body(LastDef), {"NumLt", "NumGt", "Eq", "NotEq"})

\* let name = primitive(...) in If(name.flag, _, _): the binding and the
\* conditional that reads the bound record's field flag.
IsBoundConditional(e, flag) ==
    /\ e.k = "LetNonRec"
    /\ e.def.loc_pattern.value.k = "Identifier"
    /\ e.def.loc_expr.value.k = "RunLowLevel"
    /\ IsTwoWay(e.cont.value)
    /\ IsFieldOf(Guard(e.cont.value), flag, e.def.loc_pattern.value.symbol)

\* let name = decode(...) in If(name.c_isOk, Ok(_), Err(BadUtf8 _ _))
IsDecoding(e) ==
    /\ IsBoundConditional(e, "c_isOk")
    /\ IsTag(Then(e.cont.value), "Ok", 1)
    /\ IsErrOf(Else(e.cont.value), 2)
    /\ Else(e.cont.value).arguments[1][2].value.name.name = "BadUtf8"

\* C7, amended: every safe wrapper holds a two-way conditional whose one
\* branch is Ok of one value and whose other branch is Err of a tag.  For
\* division, remainder, list get/first/last, the byte decoders and the
\* logarithm the body is exactly If(guard, Ok, Err(tag without arguments))
\* with a strict or (in)equality comparison as the guard; the square root has
\* the same shape with the guard >=.  Checked add/sub/mul bind the
\* primitive's record first and branch on its overflow flag, with the Err
\* branch first.  UTF-8 decoding binds the primitive's record first and
\* branches on its success flag, and its Err wraps BadUtf8 with two
\* arguments; range decoding wraps that in If(start + count <= length, _,
\* Err(OutOfBounds)).
C7_WrapperShapes ==
    Defined =>
        LET body == Body(LastDef)
        IN /\ last.symbol \in DivisionSymbols \cup ListAccessSymbols =>
                IsGuardedOk(body, {"NumLt", "NotEq"})
           /\ last.symbol \in ByteDecoderSymbols => IsGuardedOk(body, {"NumLt"})
           /\ last.symbol = "NUM_LOG" => IsGuardedOk(body, {"NumGt"})
           /\ last.symbol = "NUM_SQRT" => IsGuardedOk(body, {"NumGte"})
           /\ last.symbol \in CheckedSymbols =>
                /\ IsBoundConditional(body, "b")
                /\ IsErrOf(Then(body.cont.value), 0)
                /\ IsTag(Else(body.cont.value), "Ok", 1)
           /\ last.symbol = "STR_FROM_UTF8" => IsDecoding(body)
           /\ last.symbol = "STR_FROM_UTF8_RANGE" =>
                /\ IsTwoWay(body)
                /\ IsLowLevel(Guard(body), {"NumLte"})
                /\ IsDecoding(Then(body))
                /\ IsErrOf(Else(body), 0)

C7_Witness ==
    /\ Defined
    /\ last.symbol = "NUM_LOG"
    /\ IsGuardedOk(Body(LastDef), {"NumGt"})
    /\ Else(Body(LastDef)).arguments[1][2].value.name.name = "LogNeedsPositive"

\* The checked primitive of each checked operation, and the exact result it
\* stands for.
CheckedOp(symbol) ==
    CASE symbol = "NUM_ADD_CHECKED" -> "NumAddChecked"
      [] symbol = "NUM_SUB_CHECKED" -> "NumSubChecked"
      [] symbol = "NUM_MUL_CHECKED" -> "NumMulChecked"
Exact(symbol, x, y) ==
    CASE symbol = "NUM_ADD_CHECKED" -> x + y
      [] symbol = "NUM_SUB_CHECKED" -> x - y
      [] symbol = "NUM_MUL_CHECKED" -> x * y
\* The calls of the low-level operations ops in a trace.
CallsOf(trace, ops) == SelectSeq(trace, LAMBDA c : c.op \in ops)
\* The low-level calls written in an expression.
LowLevelNodes(e) == SelectSeq(Nodes(e), LAMBDA n : n.k = "RunLowLevel")
Ran == last.called /\ run.ran

\* C8: Num.addChecked, Num.subChecked and Num.mulChecked bind a name to the
\* checked primitive applied to (first argument, second argument) and branch
\* on the bound record's overflow flag: Err(Overflow) when it is set, Ok of
\* the record's value field otherwise.  Both fields are read from the one
\* binding; the primitive is written once and, on every run, called once.
C8_CheckedArithmetic ==
    /\ (Defined /\ last.symbol \in CheckedSymbols) =>
        LET body == Body(LastDef)
            bound == body.def.loc_pattern.value.symbol
            cond == body.cont.value
        IN /\ body.k = "LetNonRec"
           /\ body.def.loc_expr.value.k = "RunLowLevel"
           /\ body.def.loc_expr.value.op = CheckedOp(last.symbol)
           /\ [j \in 1..2 |-> body.def.loc_expr.value.args[j][2]]
                    = <<Var("ARG_1"), Var("ARG_2")>>
           /\ IsTwoWay(cond)
           /\ IsFieldOf(Guard(cond), "b", bound)
           /\ IsErrOf(Then(cond), 0)
           /\ Then(cond).arguments[1][2].value.name.name = "Overflow"
           /\ IsTag(Else(cond), "Ok", 1)
           /\ IsFieldOf(Else(cond).arguments[1][2].value, "a", bound)
           /\ Len(LowLevelNodes(body)) = 1
    /\ (Ran /\ last.symbol \in CheckedSymbols) =>
        LET exact == Exact(last.symbol, run.args[1].n, run.args[2].n)
        IN /\ run.trace = <<[op |-> CheckedOp(last.symbol), args |-> run.args]>>
           /\ run.value = IF exact < IntMin \/ exact > IntMax
                          THEN TagV("Err", <<TagV("Overflow", <<>>)>>)
                          ELSE TagV("Ok", <<NumV(exact)>>)

C8_Witness ==
    /\ Ran
    /\ last.symbol = "NUM_MUL_CHECKED"
    /\ run.value = TagV("Err", <<TagV("Overflow", <<>>)>>)

C8_WitnessOk ==
    /\ Ran
    /\ last.symbol = "NUM_SUB_CHECKED"
    /\ run.value = TagV("Ok", <<NumV(IntMin + 1)>>)

\* C9: the List.get definition is
\* If(index < length(list), Ok(uncheckedGet(list, index)), Err(OutOfBounds)):
\* run on any list and index it yields Ok of the element exactly when index <
\* length, Err(OutOfBounds) otherwise, and it never evaluates the unchecked
\* get with index >= length.
C9_ListGet ==
    /\ (Defined /\ last.symbol = "LIST_GET") =>
        LET body == Body(LastDef)
        IN /\ IsGuardedOk(body, {"NumLt"})
           /\ Guard(body).args[1][2] = Var("ARG_2")
           /\ IsLowLevel(Guard(body).args[2][2], {"ListLen"})
           /\ [j \in 1..1 |-> Guard(body).args[2][2].args[j][2]] = <<Var("ARG_1")>>
           /\ IsLowLevel(Then(body).arguments[1][2].value, {"ListGetUnsafe"})
           /\ [j \in 1..2 |-> Then(body).arguments[1][2].value.args[j][2]]
                    = <<Var("ARG_1"), Var("ARG_2")>>
           /\ Else(body).arguments[1][2].value.name.name = "OutOfBounds"
    /\ (Ran /\ last.symbol = "LIST_GET") =>
        LET list == run.args[1].elems
            index == run.args[2].n
            reads == CallsOf(run.trace, {"ListGetUnsafe"})
        IN /\ \A j \in 1..Len(reads) :
                /\ reads[j].args[1] = run.args[1]
                /\ reads[j].args[2].n < Len(list)
           /\ index < Len(list) =>
                run.value = TagV("Ok", <<list[index + 1]>>) /\ Len(reads) = 1
           /\ index >= Len(list) =>
                run.value = TagV("Err", <<TagV("OutOfBounds", <<>>)>>) /\ Len(reads) = 0

C9_Witness ==
    /\ Ran
    /\ last.symbol = "LIST_GET"
    /\ run.args[2].n = Len(run.args[1].elems)
    /\ Len(run.args[1].elems) > 0
    /\ run.value = TagV("Err", <<TagV("OutOfBounds", <<>>)>>)

C9_WitnessOk ==
    /\ Ran
    /\ last.symbol = "LIST_GET"
    /\ run.args[2].n = Len(run.args[1].elems) - 1
    /\ run.value = TagV("Ok", <<run.args[1].elems[Len(run.args[1].elems)]>>)

\* The unchecked primitive of each division.
UncheckedOp(symbol) ==
    CASE symbol \in {"NUM_DIV_FLOAT", "NUM_DIV_INT"} -> "NumDivUnchecked"
      [] symbol = "NUM_DIV_CEIL" -> "NumDivCeilUnchecked"
      [] symbol = "NUM_REM" -> "NumRemUnchecked"
UncheckedOps == {"NumDivUnchecked", "NumDivCeilUnchecked", "NumRemUnchecked"}
\* e is a number literal that reads zero.
IsZeroLiteral(e) ==
    \/ e.k = "Int" /\ e.i = Lit(0) /\ e.str = "0"
    \/ e.k = "Num" /\ e.i = Lit(0) /\ e.str = "0"
    \/ e.k = "Float" /\ e.f = Flt(0) /\ e.str = "0"

C10_WitnessOk ==
    /\ Ran
    /\ last.symbol = "NUM_REM"
    /\ run.args[1] = NumV(0)
    /\ run.args[2] # NumV(0)
    /\ run.value.name = "Ok"

\* The operands of a low-level call, without their variables.
Operands(e) == [j \in 1..Len(e.args) |-> e.args[j][2]]
\* The tag an Err wraps.
ErrName(e) == e.arguments[1][2].value.name.name
\* The value an Ok wraps.
OkPayload(e) == e.arguments[1][2].value
\* e is the call op(operands).
IsCall(e, op, operands) == e.k = "RunLowLevel" /\ e.op = op /\ Operands(e) = operands
\* e is the call ListLen(ARG_1).
IsLenOfList(e) == IsCall(e, "ListLen", <<Var("ARG_1")>>)

BoundsCheckedSymbols == ListAccessSymbols \cup ByteDecoderSymbols

ByteOffset(symbol) == IF symbol = "NUM_BYTES_TO_U16" THEN 1 ELSE 3
ByteOp(symbol) == IF symbol = "NUM_BYTES_TO_U16" THEN "NumBytesToU16" ELSE "NumBytesToU32"
\* The last element of a non-empty list.
Last(elems) == elems[Len(elems)]

C11_WitnessLast ==
    /\ Ran
    /\ last.symbol = "LIST_LAST"
    /\ Len(run.args[1].elems) = MaxListLen
    /\ run.value = TagV("Ok", <<Last(run.args[1].elems)>>)

\* C12: Str.fromUtf8 binds the decoding primitive's record to one name and
\* branches on the record's success flag: Ok of the record's text when it is
\* set, otherwise Err(BadUtf8 problem byteIndex), both read from the same
\* record.  On every run the primitive is called once, on the bytes given.
C12_FromUtf8 ==
    /\ (Defined /\ last.symbol = "STR_FROM_UTF8") =>
        LET body == Body(LastDef)
            bound == body.def.loc_pattern.value.symbol
            cond == body.cont.value
            problem == OkPayload(Else(cond))
        IN /\ IsBoundConditional(body, "c_isOk")
           /\ IsCall(body.def.loc_expr.value, "StrFromUtf8", <<Var("ARG_1")>>)
           /\ IsTag(Then(cond), "Ok", 1)
           /\ IsFieldOf(OkPayload(Then(cond)), "b_str", bound)
           /\ IsTag(Else(cond), "Err", 1)
           /\ IsTag(problem, "BadUtf8", 2)
           /\ IsFieldOf(problem.arguments[1][2].value, "d_problem", bound)
           /\ IsFieldOf(problem.arguments[2][2].value, "a_byteIndex", bound)
           /\ Len(LowLevelNodes(body)) = 1
    /\ (Ran /\ last.symbol = "STR_FROM_UTF8") =>
        /\ run.trace = <<[op |-> "StrFromUtf8", args |-> run.args]>>
        /\ run.value =
            IF run.ext.decode.fields.c_isOk.b
            THEN TagV("Ok", <<run.ext.decode.fields.b_str>>)
            ELSE TagV("Err", <<TagV("BadUtf8",
                    <<run.ext.decode.fields.d_problem,
                      run.ext.decode.fields.a_byteIndex>>)>>)

C12_Witness ==
    /\ Ran
    /\ last.symbol = "STR_FROM_UTF8"
    /\ run.value = TagV("Err", <<TagV("BadUtf8", <<NumV(2), NumV(1)>>)>>)

C12_WitnessOk ==
    /\ Ran
    /\ last.symbol = "STR_FROM_UTF8"
    /\ run.value = TagV("Ok", <<StrV("text")>>)

\* The position of the first call of op in a trace (0 when there is none).
FirstCall(trace, op) ==
    IF \E j \in 1..Len(trace) : trace[j].op = op
    THEN CHOOSE j \in 1..Len(trace) : trace[j].op = op /\ \A i \in 1..(j - 1) : trace[i].op # op
    ELSE 0

\* C13: when Str.fromUtf8Range runs, the range decoding primitive is called
\* only if start + count <= length of the bytes, and only after that
\* comparison; when start + count > length the result is Err(OutOfBounds)
\* whatever the bytes and whatever the primitive would answer; a decoding
\* failure is reported, as Err(BadUtf8 ..), only for a range inside the bytes.
C13_RangeChecked ==
    /\ (Defined /\ last.symbol = "STR_FROM_UTF8_RANGE") =>
        LET body == Body(LastDef)
            sum == Operands(Guard(body))[1]
        IN /\ IsTwoWay(body)
           /\ IsLowLevel(Guard(body), {"NumLte"})
           /\ IsLowLevel(sum, {"NumAdd"})
           /\ IsFieldOf(Operands(sum)[1], "start", "ARG_2")
           /\ IsFieldOf(Operands(sum)[2], "count", "ARG_2")
           /\ IsLenOfList(Operands(Guard(body))[2])
           /\ IsDecoding(Then(body))
           /\ IsCall(Then(body).def.loc_expr.value, "StrFromUtf8Range",
                     <<Var("ARG_1"), Var("ARG_2")>>)
           /\ IsErrOf(Else(body), 0)
           /\ ErrName(Else(body)) = "OutOfBounds"
    /\ (Ran /\ last.symbol = "STR_FROM_UTF8_RANGE") =>
        LET range == run.args[2].fields
            inside == range.start.n + range.count.n <= Len(run.args[1].elems)
            decodes == CallsOf(run.trace, {"StrFromUtf8", "StrFromUtf8Range"})
            decoded == run.ext.decode.fields
        IN /\ inside =>
                /\ decodes = <<[op |-> "StrFromUtf8Range", args |-> run.args]>>
                /\ FirstCall(run.trace, "NumLte") > 0
                /\ FirstCall(run.trace, "NumLte") < FirstCall(run.trace, "StrFromUtf8Range")
                /\ run.value =
                    IF decoded.c_isOk.b
                    THEN TagV("Ok", <<decoded.b_str>>)
                    ELSE TagV("Err", <<TagV("BadUtf8",
                            <<decoded.d_problem, decoded.a_byteIndex>>)>>)
           /\ ~inside =>
                /\ decodes = <<>>
                /\ run.value = TagV("Err", <<TagV("OutOfBounds", <<>>)>>)

C13_Witness ==
    /\ Ran
    /\ last.symbol = "STR_FROM_UTF8_RANGE"
    /\ run.args[2].fields.start.n <= Len(run.args[1].elems)
    /\ run.args[2].fields.count.n <= Len(run.args[1].elems)
    /\ ~run.ext.decode.fields.c_isOk.b
    /\ run.value = TagV("Err", <<TagV("OutOfBounds", <<>>)>>)

C13_WitnessExactFit ==
    /\ Ran
    /\ last.symbol = "STR_FROM_UTF8_RANGE"
    /\ run.args[2].fields.start.n > 0
    /\ run.args[2].fields.start.n + run.args[2].fields.count.n = Len(run.args[1].elems)
    /\ run.value.name = "Err"
    /\ run.value.args[1].name = "BadUtf8"

\* The unchecked primitive and the failure tag of the domain-restricted
\* functions, and their domains.
DomainOp(symbol) == IF symbol = "NUM_SQRT" THEN "NumSqrtUnchecked" ELSE "NumLogUnchecked"
DomainErr(symbol) == IF symbol = "NUM_SQRT" THEN "SqrtOfNegative" ELSE "LogNeedsPositive"
InDomain(symbol, x) == IF symbol = "NUM_SQRT" THEN x >= 0 ELSE x > 0

\* C14: Num.sqrt yields Ok(sqrtUnchecked(x)) exactly when x >= 0 and
\* Err(SqrtOfNegative) otherwise; Num.log yields Ok(logUnchecked(x)) exactly
\* when x > 0 and Err(LogNeedsPositive) otherwise; the unchecked primitive is
\* never evaluated outside its domain.
C14_DomainChecked ==
    /\ (Defined /\ last.symbol \in {"NUM_SQRT", "NUM_LOG"}) =>
        LET body == Body(LastDef)
        IN /\ IsGuardedOk(body, {IF last.symbol = "NUM_SQRT" THEN "NumGte" ELSE "NumGt"})
           /\ Operands(Guard(body))[1] = Var("ARG_1")
           /\ IsZeroLiteral(Operands(Guard(body))[2])
           /\ IsCall(OkPayload(Then(body)), DomainOp(last.symbol), <<Var("ARG_1")>>)
           /\ ErrName(Else(body)) = DomainErr(last.symbol)
    /\ (Ran /\ last.symbol \in {"NUM_SQRT", "NUM_LOG"}) =>
        LET calls == CallsOf(run.trace, {"NumSqrtUnchecked", "NumLogUnchecked"})
            call == [op |-> DomainOp(last.symbol), args |-> run.args]
        IN /\ InDomain(last.symbol, run.args[1].n) =>
                /\ calls = <<call>>
                /\ run.value = TagV("Ok", <<PrimV(call.op, call.args)>>)
           /\ ~InDomain(last.symbol, run.args[1].n) =>
                /\ calls = <<>>
                /\ run.value = TagV("Err", <<TagV(DomainErr(last.symbol), <<>>)>>)

C14_Witness ==
    /\ Ran
    /\ last.symbol = "NUM_SQRT"
    /\ run.args = <<NumV(0)>>
    /\ run.value = TagV("Ok", <<PrimV("NumSqrtUnchecked", <<NumV(0)>>)>>)

C14_WitnessLogZero ==
    /\ Ran
    /\ last.symbol = "NUM_LOG"
    /\ run.args = <<NumV(0)>>
    /\ run.value = TagV("Err", <<TagV("LogNeedsPositive", <<>>)>>)

\* The pattern and the value of branch j of a match.
BranchPattern(e, j) == e.branches[j].patterns[1].value
BranchValue(e, j) == e.branches[j].value.value
\* e is a match on ARG_1 with an Ok arm and then an Err arm, each with one
\* pattern of one argument and no guard.
IsResultMatch(e) ==
    /\ e.k = "When"
    /\ e.loc_cond.value = Var("ARG_1")
    /\ Len(e.branches) = 2
    /\ \A j \in 1..2 :
        /\ Len(e.branches[j].patterns) = 1
        /\ e.branches[j].guard = None
        /\ BranchPattern(e, j).k = "AppliedTag"
        /\ Len(BranchPattern(e, j).arguments) = 1
    /\ {BranchPattern(e, j).tag_name.name : j \in 1..2} = {"Ok", "Err"}
\* The arm of a result match for the tag name.
Arm(e, name) == CHOOSE j \in 1..2 : BranchPattern(e, j).tag_name.name = name
\* The variable and the pattern of the payload of the arm for name.
PayloadVar(e, name) == BranchPattern(e, Arm(e, name)).arguments[1][1]
Payload(e, name) == BranchPattern(e, Arm(e, name)).arguments[1][2].value

\* C15: Result.withDefault is a two-arm match on its first argument: the arm
\* Ok(x) yields x and the arm Err(_) yields the second argument; the Ok
\* payload, the default parameter and the function's return have one and the
\* same variable.
C15_WithDefault ==
    /\ (Defined /\ last.symbol = "RESULT_WITH_DEFAULT") =>
        LET closure == LastDef.loc_expr.value
            body == closure.loc_body.value
        IN /\ IsResultMatch(body)
           /\ [j \in 1..2 |-> closure.arguments[j][2].value]
                = <<Identifier("ARG_1"), Identifier("ARG_2")>>
           /\ Payload(body, "Ok").k = "Identifier"
           /\ BranchValue(body, Arm(body, "Ok")) = Var(Payload(body, "Ok").symbol)
           /\ Payload(body, "Ok").symbol \notin {"ARG_1", "ARG_2"}
           /\ Payload(body, "Err") = Underscore
           /\ BranchValue(body, Arm(body, "Err")) = Var("ARG_2")
           /\ PayloadVar(body, "Ok") = closure.arguments[2][1]
           /\ PayloadVar(body, "Ok") = closure.return_type
           /\ PayloadVar(body, "Ok") = body.expr_var
           /\ body.cond_var = closure.arguments[1][1]
           /\ body.cond_var # closure.return_type
    /\ (Ran /\ last.symbol = "RESULT_WITH_DEFAULT") =>
        /\ run.trace = <<>>
        /\ run.value = IF run.args[1].name = "Ok" THEN run.args[1].args[1] ELSE run.args[2]

C15_Witness ==
    /\ Ran
    /\ last.symbol = "RESULT_WITH_DEFAULT"
    /\ run.args[1] = TagV("Err", <<NumV(1)>>)
    /\ run.value = NumV(-1)

C15_WitnessOk ==
    /\ Ran
    /\ last.symbol = "RESULT_WITH_DEFAULT"
    /\ run.args[1] = TagV("Ok", <<NumV(1)>>)
    /\ run.args[2] = NumV(-1)
    /\ run.value = NumV(1)

\* The other tag name of a result.
Other(name) == IF name = "Ok" THEN "Err" ELSE "Ok"
\* A tree with Ok and Err exchanged at every tag and every tag pattern.
RECURSIVE Mirror(_)
Mirror(e) ==
    CASE e.k = "When" ->
            [e EXCEPT
                !.loc_cond.value = Mirror(@),
                !.branches = [j \in 1..Len(e.branches) |->
                    [e.branches[j] EXCEPT
                        !.patterns = [i \in 1..Len(e.branches[j].patterns) |->
                            [e.branches[j].patterns[i] EXCEPT
                                !.value.tag_name.name = Other(@)]],
                        !.value.value = Mirror(@)]]]
      [] e.k = "Tag" ->
            [e EXCEPT
                !.name.name = Other(@),
                !.arguments = [j \in 1..Len(e.arguments) |->
                    <<e.arguments[j][1],
                      [e.arguments[j][2] EXCEPT !.value = Mirror(@)]>>]]
      [] e.k = "Call" ->
            [e EXCEPT
                !.fn[2].value = Mirror(@),
                !.args = [j \in 1..Len(e.args) |->
                    <<e.args[j][1], [e.args[j][2] EXCEPT !.value = Mirror(@)]>>]]
      [] e.k = "Closure" -> [e EXCEPT !.loc_body.value = Mirror(@)]
      [] OTHER -> e
\* e is the tag name applied to the one argument x.
IsTagOf(e, name, x) ==
    /\ IsTag(e, name, 1)
    /\ e.arguments[1][2].value = x
\* e is the second parameter applied to the one argument x.
IsCallback(e, x) ==
    /\ e.k = "Call"
    /\ e.fn[2].value = Var("ARG_2")
    /\ [j \in 1..Len(e.args) |-> e.args[j][2].value] = <<x>>
\* The applications written in an expression.
CallNodes(e) == SelectSeq(Nodes(e), LAMBDA n : n.k = "Call")
\* The trace of one application of the callback to x, and its result.
Applied(f, x) == <<[op |-> "Call", args |-> <<f, x>>]>>
Returned(f, x) == PrimV("Returned", <<f, x>>)
\* body matches ARG_1, applies the callback to the payload in the arm
\* mapped and wraps its result in that arm's tag, and hands the other arm's
\* payload on under its own tag.
IsMapOver(body, mapped) ==
    /\ IsResultMatch(body)
    /\ \A name \in {"Ok", "Err"} : Payload(body, name).k = "Identifier"
    /\ Payload(body, "Ok").symbol # Payload(body, "Err").symbol
    /\ {Payload(body, "Ok").symbol, Payload(body, "Err").symbol}
            \cap {"ARG_1", "ARG_2"} = {}
    /\ LET value == BranchValue(body, Arm(body, mapped))
       IN /\ IsTag(value, mapped, 1)
          /\ IsCallback(value.arguments[1][2].value, Var(Payload(body, mapped).symbol))
    /\ IsTagOf(BranchValue(body, Arm(body, Other(mapped))), Other(mapped),
               Var(Payload(body, Other(mapped)).symbol))
    /\ Len(CallNodes(body)) = 1

\* C16: Result.map is the match Ok(x) -> Ok(f(x)), Err(e) -> Err(e) on its
\* first argument with f its second argument; Result.mapErr is the tree of
\* Result.map with the tag names Ok and Err exchanged everywhere; each
\* applies f only in the arm it transforms.
C16_MapAndMapErr ==
    /\ (Defined /\ last.symbol = "RESULT_MAP") => IsMapOver(Body(LastDef), "Ok")
    /\ (Defined /\ last.symbol = "RESULT_MAP_ERR") =>
        /\ IsMapOver(Body(LastDef), "Err")
        /\ LET map == result_map(last.symbol, last.before)
           IN /\ LastDef.loc_expr.value = Mirror(map.def.loc_expr.value)
              /\ LastDef = [map.def EXCEPT !.loc_expr.value = Mirror(@)]
              /\ var_store = map.var_store
    /\ (Ran /\ last.symbol \in {"RESULT_MAP", "RESULT_MAP_ERR"}) =>
        LET mapped == IF last.symbol = "RESULT_MAP" THEN "Ok" ELSE "Err"
            x == run.args[1].args[1]
        IN IF run.args[1].name = mapped
           THEN /\ run.value = TagV(mapped, <<Returned(run.args[2], x)>>)
                /\ run.trace = Applied(run.args[2], x)
           ELSE /\ run.value = run.args[1]
                /\ run.trace = <<>>

C16_Witness ==
    /\ Ran
    /\ last.symbol = "RESULT_MAP_ERR"
    /\ run.args[1] = TagV("Err", <<NumV(1)>>)
    /\ run.value = TagV("Err", <<Returned(run.args[2], NumV(1))>>)

C16_WitnessMap ==
    /\ Ran
    /\ last.symbol = "RESULT_MAP"
    /\ run.args[1] = TagV("Ok", <<NumV(1)>>)
    /\ run.value = TagV("Ok", <<Returned(run.args[2], NumV(1))>>)

C16_WitnessPassed ==
    /\ Ran
    /\ last.symbol = "RESULT_MAP"
    /\ run.args[1] = TagV("Err", <<NumV(1)>>)
    /\ run.value = run.args[1]

\* C17: Result.after is the match Ok(x) -> f(x), Err(e) -> Err(e) on its
\* first argument with f its second argument: the Ok arm is the callback's
\* result itself, without an Ok around it, and the Err arm does not apply
\* the callback.
C17_After ==
    /\ (Defined /\ last.symbol = "RESULT_AFTER") =>
        LET body == Body(LastDef)
        IN /\ IsResultMatch(body)
           /\ \A name \in {"Ok", "Err"} : Payload(body, name).k = "Identifier"
           /\ Payload(body, "Ok").symbol # Payload(body, "Err").symbol
           /\ {Payload(body, "Ok").symbol, Payload(body, "Err").symbol}
                    \cap {"ARG_1", "ARG_2"} = {}
           /\ IsCallback(BranchValue(body, Arm(body, "Ok")),
                         Var(Payload(body, "Ok").symbol))
           /\ IsTagOf(BranchValue(body, Arm(body, "Err")), "Err",
                      Var(Payload(body, "Err").symbol))
           /\ Len(CallNodes(body)) = 1
    /\ (Ran /\ last.symbol = "RESULT_AFTER") =>
        LET x == run.args[1].args[1]
        IN IF run.args[1].name = "Ok"
           THEN /\ run.value = Returned(run.args[2], x)
                /\ run.trace = Applied(run.args[2], x)
           ELSE /\ run.value = run.args[1]
                /\ run.trace = <<>>

C17_Witness ==
    /\ Ran
    /\ last.symbol = "RESULT_AFTER"
    /\ run.args[1] = TagV("Ok", <<NumV(2)>>)
    /\ run.value = Returned(run.args[2], NumV(2))

C17_WitnessErr ==
    /\ Ran
    /\ last.symbol = "RESULT_AFTER"
    /\ run.args[1] = TagV("Err", <<NumV(2)>>)
    /\ run.value = TagV("Err", <<NumV(2)>>)
    /\ run.trace = <<>>

\* The images of the elements under the mapper f, joined in the order of
\* the elements.
Joined(f, elems) == Flatten([j \in 1..Len(elems) |-> f.table[<<elems[j]>>].elems])

C18_WitnessEmpty ==
    /\ Ran
    /\ last.symbol = "LIST_JOIN_MAP"
    /\ run.args[1] = ListV(<<>>)
    /\ run.value = ListV(<<>>)
    /\ CallsOf(run.trace, {"Call"}) = <<>>

MinMaxSymbols == {"LIST_MIN", "LIST_MAX"}
\* The comparison of the step of List.min and of List.max.
StepOp(symbol) == IF symbol = "LIST_MIN" THEN "NumLt" ELSE "NumGt"
\* The least and the greatest element of a list that is not empty.
Least(elems) == CHOOSE m \in Range(elems) : \A x \in Range(elems) : m.n <= x.n
Greatest(elems) == CHOOSE m \in Range(elems) : \A x \in Range(elems) : m.n >= x.n
\* List.min and List.max guard on the list not being empty, fold the list
\* from its first element with a step that keeps the element when the
\* comparison of the element with the state holds, and answer Err(empty)
\* for the empty list without reading or folding it.
MinMaxGuarded(empty) ==
    /\ (Defined /\ last.symbol \in MinMaxSymbols) =>
        LET body == Body(LastDef)
            guard == Guard(body)
            walk == OkPayload(Then(body))
            step == Operands(walk)[3]
            state == step.arguments[1][2].value
            elem == step.arguments[2][2].value
            keep == step.loc_body.value
        IN /\ IsGuardedOk(body, {"NotEq"})
           /\ IsZeroLiteral(Operands(guard)[1])
           /\ IsLenOfList(Operands(guard)[2])
           /\ IsLowLevel(walk, {"ListWalk"})
           /\ Len(walk.args) = 3
           /\ Operands(walk)[1] = Var("ARG_1")
           /\ IsLowLevel(Operands(walk)[2], {"ListGetUnsafe"})
           /\ Operands(Operands(walk)[2])[1] = Var("ARG_1")
           /\ IsZeroLiteral(Operands(Operands(walk)[2])[2])
           /\ step.k = "Closure"
           /\ Len(step.arguments) = 2
           /\ state.k = "Identifier"
           /\ elem.k = "Identifier"
           /\ Cardinality({state.symbol, elem.symbol, "ARG_1"}) = 3
           /\ IsTwoWay(keep)
           /\ IsCall(Guard(keep), StepOp(last.symbol),
                     <<Var(elem.symbol), Var(state.symbol)>>)
           /\ Then(keep) = Var(elem.symbol)
           /\ Else(keep) = Var(state.symbol)
           /\ IsErrOf(Else(body), 0)
           /\ ErrName(Else(body)) = empty
    /\ (Ran /\ last.symbol \in MinMaxSymbols) =>
        LET list == run.args[1].elems
            reads == CallsOf(run.trace, {"ListGetUnsafe"})
            walks == CallsOf(run.trace, {"ListWalk"})
            steps == CallsOf(run.trace, {"NumLt", "NumGt"})
        IN /\ list # <<>> =>
                /\ run.value =
                    TagV("Ok", <<IF last.symbol = "LIST_MIN"
                                 THEN Least(list) ELSE Greatest(list)>>)
                /\ [j \in 1..Len(reads) |-> reads[j].args] = <<<<run.args[1], NumV(0)>>>>
                /\ Len(walks) = 1
                /\ walks[1].args[1] = run.args[1]
                /\ walks[1].args[2] = Head(list)
                /\ [j \in 1..Len(steps) |-> steps[j].op]
                        = [j \in 1..Len(list) |-> StepOp(last.symbol)]
                /\ [j \in 1..Len(steps) |-> steps[j].args[1]] = list
           /\ list = <<>> =>
                /\ run.value = TagV("Err", <<TagV(empty, <<>>)>>)
                /\ reads = <<>>
                /\ walks = <<>>
                /\ steps = <<>>

C19_WitnessMax ==
    /\ Ran
    /\ last.symbol = "LIST_MAX"
    /\ run.args[1] = ListV(<<NumV(0), NumV(1)>>)
    /\ run.value = TagV("Ok", <<NumV(1)>>)

C19_WitnessEmpty ==
    /\ Ran
    /\ last.symbol = "LIST_MAX"
    /\ run.args[1] = ListV(<<>>)
    /\ run.value = TagV("Err", <<TagV("ListWasEmpty", <<>>)>>)
    /\ run.trace = <<[op |-> "ListLen", args |-> <<ListV(<<>>)>>],
                     [op |-> "NotEq", args |-> <<NumV(0), NumV(0)>>]>>

\* The builtins whose synthesizer is lowlevel_1 .. lowlevel_5 or a
\* hand-written body of the same kind (bool_eq .. bool_not, str_concat,
\* num_binop, the set operations that forward to a dictionary primitive).
PassthroughSymbols ==
    {"BOOL_EQ", "BOOL_NEQ", "BOOL_AND", "BOOL_OR", "BOOL_NOT",
     "STR_CONCAT", "STR_JOIN_WITH", "STR_SPLIT", "STR_IS_EMPTY",
     "STR_STARTS_WITH", "STR_STARTS_WITH_CODE_PT", "STR_ENDS_WITH",
     "STR_COUNT_GRAPHEMES", "STR_FROM_INT", "STR_TO_UTF8",
     "STR_FROM_FLOAT", "STR_REPEAT", "STR_TRIM", "LIST_LEN",
     "LIST_APPEND", "LIST_SINGLE", "LIST_REPEAT", "LIST_REVERSE",
     "LIST_CONCAT", "LIST_CONTAINS", "LIST_PREPEND", "LIST_JOIN",
     "LIST_MAP", "LIST_MAP2", "LIST_MAP3", "LIST_MAP4",
     "LIST_TAKE_FIRST", "LIST_TAKE_LAST", "LIST_DROP", "LIST_DROP_AT",
     "LIST_SWAP", "LIST_MAP_WITH_INDEX", "LIST_KEEP_IF",
     "LIST_KEEP_OKS", "LIST_KEEP_ERRS", "LIST_RANGE", "LIST_WALK",
     "LIST_WALK_BACKWARDS", "LIST_WALK_UNTIL", "LIST_SORT_WITH",
     "LIST_ANY", "DICT_LEN", "DICT_INSERT", "DICT_REMOVE",
     "DICT_CONTAINS", "DICT_KEYS", "DICT_VALUES", "DICT_UNION",
     "DICT_INTERSECTION", "DICT_DIFFERENCE", "DICT_WALK", "SET_LEN",
     "SET_UNION", "SET_INTERSECTION", "SET_DIFFERENCE", "SET_TO_LIST",
     "SET_FROM_LIST", "SET_REMOVE", "SET_CONTAINS", "NUM_ADD",
     "NUM_ADD_WRAP", "NUM_SUB", "NUM_SUB_WRAP", "NUM_MUL",
     "NUM_MUL_WRAP", "NUM_GT", "NUM_GTE", "NUM_LT", "NUM_LTE",
     "NUM_COMPARE", "NUM_SIN", "NUM_COS", "NUM_ABS", "NUM_NEG",
     "NUM_IS_MULTIPLE_OF", "NUM_ROUND", "NUM_TO_FLOAT", "NUM_POW",
     "NUM_CEILING", "NUM_POW_INT", "NUM_FLOOR", "NUM_ATAN", "NUM_ACOS",
     "NUM_ASIN", "NUM_BITWISE_AND", "NUM_BITWISE_XOR", "NUM_BITWISE_OR",
     "NUM_SHIFT_LEFT", "NUM_SHIFT_RIGHT", "NUM_SHIFT_RIGHT_ZERO_FILL",
     "NUM_INT_CAST"}
\* The positional parameter names.
ArgSymbols == <<"ARG_1", "ARG_2", "ARG_3", "ARG_4", "ARG_5">>
\* The closure is a function of the parameters ARG_1 .. ARG_N and its body
\* is one primitive call on exactly those parameters, in that order and
\* with the variables they are declared with.
IsPassthrough(closure) ==
    LET body == closure.loc_body.value
        n == Len(closure.arguments)
    IN /\ n \in 1..Len(ArgSymbols)
       /\ [j \in 1..n |-> closure.arguments[j][2].value]
            = [j \in 1..n |-> Identifier(ArgSymbols[j])]
       /\ body.k = "RunLowLevel"
       /\ Operands(body) = [j \in 1..n |-> Var(ArgSymbols[j])]
       /\ [j \in 1..n |-> body.args[j][1]] = [j \in 1..n |-> closure.arguments[j][1]]
\* The declared return variable is the result variable of the call.
ReturnsResult(closure) == closure.return_type = closure.loc_body.value.ret_var

\* C20, as stated: every direct-passthrough builtin is a function of N
\* parameters ARG_1..ARG_N whose body is a single primitive call receiving
\* exactly those parameters once each, in the same order and with the same
\* variables as declared, and whose declared return variable is that
\* call's result variable.
C20_ReturnIsResult ==
    (Defined /\ last.symbol \in PassthroughSymbols) =>
        /\ IsPassthrough(LastDef.loc_expr.value)
        /\ ReturnsResult(LastDef.loc_expr.value)

\* C20, amended: as stated, except that in Bool.and the call has a result
\* variable of its own, minted for it and used nowhere else, while the
\* declared return variable is the variable of the two parameters.
C20_Passthrough ==
    (Defined /\ last.symbol \in PassthroughSymbols) =>
        LET closure == LastDef.loc_expr.value
            result == closure.loc_body.value.ret_var
        IN /\ IsPassthrough(closure)
           /\ last.symbol # "BOOL_AND" => ReturnsResult(closure)
           /\ last.symbol = "BOOL_AND" =>
                /\ result \in MintedByLast
                /\ Occurrences(DefVars(LastDef), result) = 1
                /\ closure.return_type = closure.arguments[1][1]
                /\ closure.return_type = closure.arguments[2][1]

C20_Witness ==
    /\ Defined
    /\ last.symbol = "BOOL_AND"
    /\ IsPassthrough(LastDef.loc_expr.value)
    /\ ~ReturnsResult(LastDef.loc_expr.value)

C20_WitnessFive ==
    /\ Defined
    /\ last.symbol = "LIST_MAP4"
    /\ Len(LastDef.loc_expr.value.arguments) = 5
    /\ IsPassthrough(LastDef.loc_expr.value)
    /\ ReturnsResult(LastDef.loc_expr.value)

C21_WitnessAbsent ==
    /\ last.called
    /\ last.symbol \in BuiltinSymbols \ DispatchKeys
    /\ ~last.panicked
    /\ ~last.def.some

\* What a compilation that runs alone, with a store of its own, has after
\* asking for the identities asked[1], asked[2], ... in turn.
RECURSIVE Alone(_)
Alone(asked) ==
    IF asked = <<>>
    THEN [var_store |-> FIRST_USER_SPACE_VAR, calls |-> <<>>]
    ELSE LET before == Alone(SubSeq(asked, 1, Len(asked) - 1))
             symbol == asked[Len(asked)]
             call == builtin_defs_map_on(<<before.var_store>>, 1, symbol, debug_assertions)
         IN [var_store |-> call.stores[1],
             calls |-> Append(before.calls, [symbol |-> symbol, out |-> call.out])]
\* The identities compilation c has asked for, in order.
Asked(c) == [j \in 1..Len(compilations[c].calls) |-> compilations[c].calls[j].symbol]

RECURSIVE PatternSymbols(_)
PatternSymbols(p) ==
    CASE p.k = "Identifier" -> {p.symbol}
      [] p.k = "AppliedTag" ->
            UNION {PatternSymbols(p.arguments[j][2].value) : j \in 1..Len(p.arguments)}
      [] OTHER -> {}
\* The symbols a closure lists as captured, and those its parameters bind.
Captured(e) == {e.captured_symbols[j][1] : j \in 1..Len(e.captured_symbols)}
Parameters(e) == UNION {PatternSymbols(e.arguments[j][2].value) : j \in 1..Len(e.arguments)}
\* Every symbol reference in e is bound in scope or further in: by a let
\* around it (not by the let whose bound expression it stands in), by the
\* patterns of its match arm, or by the parameters of a closure around it;
\* the body of a closure sees the closure's parameters and the symbols the
\* closure lists as captured, which must be in scope where the closure
\* stands.
RECURSIVE InScope(_, _)
InScope(e, scope) ==
    CASE e.k = "Var" -> e.symbol \in scope
      [] e.k = "LetNonRec" ->
            /\ InScope(e.def.loc_expr.value, scope)
            /\ InScope(e.cont.value, scope \cup PatternSymbols(e.def.loc_pattern.value))
      [] e.k = "When" ->
            /\ InScope(e.loc_cond.value, scope)
            /\ \A j \in 1..Len(e.branches) :
                InScope(e.branches[j].value.value,
                        scope \cup UNION {PatternSymbols(e.branches[j].patterns[i].value) :
                                            i \in 1..Len(e.branches[j].patterns)})
      [] e.k = "Closure" ->
            /\ Captured(e) \subseteq scope
            /\ InScope(e.loc_body.value, Captured(e) \cup Parameters(e))
      [] OTHER -> \A j \in 1..Len(Children(e)) : InScope(Children(e)[j], scope)
\* The closures inside the top-level closure of a definition.
HelperClosures(def) == SelectSeq(Tail(DefNodes(def)), LAMBDA e : e.k = "Closure")

\* The parameter that holds the user's function in the builtins whose
\* helper closure applies it.
UserFunction == [LIST_JOIN_MAP |-> "ARG_2", SET_WALK |-> "ARG_3"]

\* C23: in every synthesized definition each symbol reference is in scope
\* where it stands: bound by a parameter of an enclosing closure, by an
\* enclosing non-recursive let or by the pattern of its match arm; a helper
\* closure that refers to a symbol bound outside it (the user function in
\* List.joinMap and Set.walk) lists that symbol as captured.
C23_ReferencesInScope ==
    (Defined /\ last.symbol \in DispatchKeys) =>
        /\ InScope(LastDef.loc_expr.value, {})
        /\ last.symbol \in DOMAIN UserFunction =>
            LET helper == HelperClosures(LastDef)[1]
                user == UserFunction[last.symbol]
            IN /\ Len(HelperClosures(LastDef)) = 1
               /\ Captured(helper) = {user}
               /\ user \in Parameters(LastDef.loc_expr.value)
               /\ user \notin Parameters(helper)
               /\ \E j \in 1..Len(Nodes(helper)) :
                    /\ Nodes(helper)[j].k = "Call"
                    /\ Nodes(helper)[j].fn[2].value = Var(user)
        /\ (last.symbol \notin DOMAIN UserFunction) =>
            \A j \in 1..Len(HelperClosures(LastDef)) :
                /\ Captured(HelperClosures(LastDef)[j]) = {}
                /\ InScope(HelperClosures(LastDef)[j], {})

C23_Witness ==
    /\ Defined
    /\ last.symbol = "SET_WALK"
    /\ Captured(HelperClosures(LastDef)[1]) = {"ARG_3"}
    /\ InScope(LastDef.loc_expr.value, {})

C23_WitnessLet ==
    /\ Defined
    /\ last.symbol = "DICT_GET"
    /\ Body(LastDef).k = "LetNonRec"
    /\ InScope(LastDef.loc_expr.value, {})
    /\ ~InScope(Body(LastDef).cont.value, {"ARG_1", "ARG_2"})

\* The position a letter-coded field name stands for: a first, b second,
\* c third, d fourth.
LetterPosition == [a_byteIndex |-> 1, b_str |-> 2, c_isOk |-> 3, d_problem |-> 4]
\* The binding of the decoding primitive's record in a definition, and the
\* conditional on it.
DecodingLet(def) == SelectSeq(DefNodes(def), LAMBDA e : e.k = "LetNonRec")[1]
DecodingIf(def) == DecodingLet(def).cont.value
\* The fields a UTF-8 decoder reads for the success flag, the decoded
\* string, the failure byte index and the failure-kind code.
FlagField(def) == Guard(DecodingIf(def)).field
StringField(def) == OkPayload(Then(DecodingIf(def))).field
ByteIndexField(def) == OkPayload(Else(DecodingIf(def))).arguments[2][2].value.field
ProblemField(def) == OkPayload(Else(DecodingIf(def))).arguments[1][2].value.field

\* C24: the letter-coded fields of the record of the UTF-8 decoding
\* primitive are read in the positional order of the spec and of the code's
\* comment: the first field is the success flag, the second the decoded
\* string, the third the failure byte index, the fourth the failure-kind
\* code; the guard of Str.fromUtf8 and Str.fromUtf8Range reads the first.
C24_PositionalFields ==
    (Defined /\ last.symbol \in Utf8Symbols) =>
        /\ LetterPosition[FlagField(LastDef)] = 1
        /\ LetterPosition[StringField(LastDef)] = 2
        /\ LetterPosition[ByteIndexField(LastDef)] = 3
        /\ LetterPosition[ProblemField(LastDef)] = 4

\* C26: List.set checks the bounds and reports no error: when index <
\* length the result is the set primitive applied to (list, index,
\* element); when index >= length it is the input list itself and the set
\* primitive is not evaluated.
C26_ListSet ==
    /\ (Defined /\ last.symbol = "LIST_SET") =>
        LET body == Body(LastDef)
        IN /\ IsTwoWay(body)
           /\ IsCall(Guard(body), "NumLt", <<Var("ARG_2"), Guard(body).args[2][2]>>)
           /\ IsLenOfList(Operands(Guard(body))[2])
           /\ IsCall(Then(body), "ListSet", <<Var("ARG_1"), Var("ARG_2"), Var("ARG_3")>>)
           /\ Else(body) = Var("ARG_1")
           /\ TagNodes(LastDef) = <<>>
    /\ (Ran /\ last.symbol = "LIST_SET") =>
        LET list == run.args[1].elems
            index == run.args[2].n
            sets == CallsOf(run.trace, {"ListSet"})
        IN IF index < Len(list)
           THEN /\ sets = <<[op |-> "ListSet", args |-> run.args]>>
                /\ run.value = ListV([list EXCEPT ![index + 1] = run.args[3]])
           ELSE /\ sets = <<>>
                /\ run.value = run.args[1]

C26_Witness ==
    /\ Ran
    /\ last.symbol = "LIST_SET"
    /\ run.args = <<ListV(<<NumV(0), NumV(0)>>), NumV(2), NumV(1)>>
    /\ run.value = ListV(<<NumV(0), NumV(0)>>)

C26_WitnessSet ==
    /\ Ran
    /\ last.symbol = "LIST_SET"
    /\ run.args = <<ListV(<<NumV(0), NumV(0)>>), NumV(1), NumV(1)>>
    /\ run.value = ListV(<<NumV(0), NumV(1)>>)

\* The internal name of the helper closure of the builtins that hold one.
HelperName ==
    [LIST_JOIN_MAP |-> "LIST_JOIN_MAP_CONCAT", SET_WALK |-> "SET_WALK_USER_FUNCTION",
     LIST_MIN |-> "LIST_MIN_LT", LIST_MAX |-> "LIST_MAX_GT",
     LIST_SUM |-> "LIST_SUM_ADD", LIST_PRODUCT |-> "LIST_PRODUCT_MUL"]
\* The set builtins whose synthesizer is the one of a dictionary builtin.
DelegatingSymbols == {"SET_TO_LIST", "SET_REMOVE", "SET_CONTAINS"}

\* C25: for every identity s of the dispatch table the pattern of the
\* returned definition is the identifier s and, when the body is a
\* function, the outer closure is named s, also for the set builtins that
\* reuse a dictionary synthesizer; helper closures keep their own internal
\* names.
C25_NamedAfterIdentity ==
    (Defined /\ last.symbol \in DispatchKeys) =>
        /\ LastDef.loc_pattern.value = Identifier(last.symbol)
        /\ LastDef.loc_expr.value.k = "Closure" => LastDef.loc_expr.value.name = last.symbol
        /\ [j \in 1..Len(HelperClosures(LastDef)) |-> HelperClosures(LastDef)[j].name]
            = IF last.symbol \in DOMAIN HelperName
              THEN <<HelperName[last.symbol]>>
              ELSE <<>>
        /\ last.symbol \in DOMAIN HelperName => HelperName[last.symbol] \in HelperSymbols

C25_Witness ==
    /\ Defined
    /\ last.symbol \in DelegatingSymbols
    /\ LastDef.loc_pattern.value = Identifier(last.symbol)
    /\ LastDef.loc_expr.value.name = last.symbol
    /\ Body(LastDef).op \in {"DictKeys", "DictRemove", "DictContains"}

C25_WitnessHelper ==
    /\ Defined
    /\ last.symbol = "LIST_SUM"
    /\ LastDef.loc_expr.value.name = "LIST_SUM"
    /\ HelperClosures(LastDef)[1].name = "LIST_SUM_ADD"

C27_WitnessEmpty ==
    /\ Ran
    /\ last.symbol = "LIST_LAST"
    /\ run.args[1] = ListV(<<>>)
    /\ run.value = TagV("Err", <<TagV("ListWasEmpty", <<>>)>>)
    /\ CallsOf(run.trace, {"NumSubWrap"}) = <<>>

\* The positions of the bytes a decoder reads when given index.
BytesRead(symbol, index) == index..(index + ByteOffset(symbol))

\* C28: Num.bytesToU16 and Num.bytesToU32 evaluate the decoding primitive
\* on (list, index) only when index + offset < length, with offset 1 for
\* U16 and 3 for U32, so every byte the primitive reads (index up to
\* index + offset) is inside the list; otherwise the result is
\* Err(OutOfBounds).
C28_DecodedInside ==
    (Ran /\ last.symbol \in ByteDecoderSymbols) =>
        LET list == run.args[1].elems
            index == run.args[2].n
            offset == IF last.symbol = "NUM_BYTES_TO_U16" THEN 1 ELSE 3
            decodes == CallsOf(run.trace, {"NumBytesToU16", "NumBytesToU32"})
            sums == CallsOf(run.trace, {"NumAdd"})
        IN /\ sums = <<[op |-> "NumAdd", args |-> <<NumV(index), NumV(offset)>>]>>
           /\ \A j \in 1..Len(decodes) :
                /\ decodes[j].op = ByteOp(last.symbol)
                /\ decodes[j].args = <<run.args[1], run.args[2]>>
                /\ index + offset < Len(list)
                /\ BytesRead(last.symbol, decodes[j].args[2].n) \subseteq 0..(Len(list) - 1)
           /\ IF index + offset < Len(list)
              THEN Len(decodes) = 1 /\ run.value = TagV("Ok", <<PrimV(ByteOp(last.symbol), run.args)>>)
              ELSE decodes = <<>> /\ run.value = TagV("Err", <<TagV("OutOfBounds", <<>>)>>)

C28_Witness ==
    /\ Ran
    /\ last.symbol = "NUM_BYTES_TO_U32"
    /\ run.args[2].n + 3 < Len(run.args[1].elems)
    /\ Len(CallsOf(run.trace, {"NumBytesToU32"})) = 1
    /\ run.value = TagV("Ok", <<PrimV("NumBytesToU32", run.args)>>)

C28_WitnessOutside ==
    /\ Ran
    /\ last.symbol = "NUM_BYTES_TO_U32"
    /\ run.args[2].n + 1 < Len(run.args[1].elems)
    /\ run.args[2].n + 3 >= Len(run.args[1].elems)
    /\ run.value = TagV("Err", <<TagV("OutOfBounds", <<>>)>>)

\* The unchecked primitive of each lookup, the name its record is bound to,
\* the record's flag field and the tag of the failure.
LookupSymbols == {"DICT_GET", "LIST_FIND"}
LookupOp(symbol) == IF symbol = "DICT_GET" THEN "DictGetUnsafe" ELSE "ListFindUnsafe"
LookupResult(symbol) == IF symbol = "DICT_GET" THEN "DICT_GET_RESULT" ELSE "LIST_FIND_RESULT"
LookupFlag(symbol) == IF symbol = "DICT_GET" THEN "zflag" ELSE "found"
LookupFailure(symbol) == IF symbol = "DICT_GET" THEN "KeyNotFound" ELSE "NotFound"
\* The flag of the record a lookup primitive answered with.
Flagged(symbol, record) ==
    IF symbol = "DICT_GET" THEN record.fields.zflag.b ELSE record.fields.found.b

\* C29: Dict.get and List.find each bind the record of the unchecked
\* primitive, called once on the two arguments in order, to an internal name
\* and branch on its flag field: Ok of the record's value field when the
\* flag is true, otherwise Err(KeyNotFound) for Dict.get and Err(NotFound)
\* for List.find.  The value field is never returned when the flag is false.
C29_Lookup ==
    /\ (Defined /\ last.symbol \in LookupSymbols) =>
        LET body == Body(LastDef)
            bound == body.def.loc_pattern.value.symbol
            cond == body.cont.value
        IN /\ body.k = "LetNonRec"
           /\ bound = LookupResult(last.symbol)
           /\ bound \notin {"ARG_1", "ARG_2"}
           /\ IsCall(body.def.loc_expr.value, LookupOp(last.symbol),
                     <<Var("ARG_1"), Var("ARG_2")>>)
           /\ IsTwoWay(cond)
           /\ IsFieldOf(Guard(cond), LookupFlag(last.symbol), bound)
           /\ IsTag(Then(cond), "Ok", 1)
           /\ IsFieldOf(Then(cond).arguments[1][2].value, "value", bound)
           /\ IsErrOf(Else(cond), 0)
           /\ ErrName(Else(cond)) = LookupFailure(last.symbol)
           /\ Len(LowLevelNodes(body)) = 1
    /\ (Ran /\ last.symbol \in LookupSymbols) =>
        /\ run.trace = <<[op |-> LookupOp(last.symbol), args |-> run.args]>>
        /\ run.value = IF Flagged(last.symbol, run.ext.decode)
                       THEN TagV("Ok", <<run.ext.decode.fields.value>>)
                       ELSE TagV("Err", <<TagV(LookupFailure(last.symbol), <<>>)>>)

C29_Witness ==
    /\ Ran
    /\ last.symbol = "DICT_GET"
    /\ run.ext.decode = RecordV([value |-> NumV(1), zflag |-> BoolV(FALSE)])
    /\ run.value = TagV("Err", <<TagV("KeyNotFound", <<>>)>>)

C29_WitnessFound ==
    /\ Ran
    /\ last.symbol = "LIST_FIND"
    /\ run.ext.decode = RecordV([value |-> NumV(1), found |-> BoolV(TRUE)])
    /\ run.value = TagV("Ok", <<NumV(1)>>)

\* Num.isOdd's counterpart is Num.isEven and the reverse; the literal each
\* compares the remainder with.
ParitySymbols == {"NUM_IS_ODD", "NUM_IS_EVEN"}
OtherParity(symbol) == IF symbol = "NUM_IS_ODD" THEN "NUM_IS_EVEN" ELSE "NUM_IS_ODD"
ParityLiteral(symbol) == IF symbol = "NUM_IS_ODD" THEN 1 ELSE 0
\* What the other of the two definitions, synthesized at the same store
\* position, answers for the argument of the run.
OtherParityValue ==
    ApplyDef(builtin_defs_map(OtherParity(last.symbol), last.before, debug_assertions).def.value,
             run.args, run.ext).value

\* C30, the definitions: Num.isOdd x is 1 == remUnchecked(x, 2) and
\* Num.isEven x is 0 == remUnchecked(x, 2), the remainder taking the sign of
\* the dividend.
C30_DefinedByRemainder ==
    /\ (Defined /\ last.symbol \in ParitySymbols) =>
        LET body == Body(LastDef)
        IN /\ IsLowLevel(body, {"Eq"})
           /\ Operands(body)[1].k \in {"Int", "Num"}
           /\ Operands(body)[1].i = Lit(ParityLiteral(last.symbol))
           /\ IsLowLevel(Operands(body)[2], {"NumRemUnchecked"})
           /\ Operands(Operands(body)[2])[1] = Var("ARG_1")
           /\ Operands(Operands(body)[2])[2].k = "Num"
           /\ Operands(Operands(body)[2])[2].i = Lit(2)
    /\ (Ran /\ last.symbol \in ParitySymbols) =>
        LET x == run.args[1].n
            rem == IF x >= 0 THEN x % 2 ELSE -((-x) % 2)
        IN /\ run.trace = <<[op |-> "NumRemUnchecked", args |-> <<NumV(x), NumV(2)>>],
                            [op |-> "Eq", args |-> <<NumV(ParityLiteral(last.symbol)), NumV(rem)>>]>>
           /\ run.value = BoolV(rem = ParityLiteral(last.symbol))

\* C30: for every integer x of a bounded signed range, negatives included,
\* exactly one of Num.isOdd x and Num.isEven x is true.
C30_ExactlyOne ==
    (Ran /\ last.symbol \in ParitySymbols) =>
        (run.value = BoolV(TRUE)) # (OtherParityValue = BoolV(TRUE))

\* C30 for the numbers that are not negative.
C30_ExactlyOneFromZero ==
    (Ran /\ last.symbol \in ParitySymbols /\ run.args[1].n >= 0) =>
        (run.value = BoolV(TRUE)) # (OtherParityValue = BoolV(TRUE))

\* A negative odd number is neither odd nor even.
C30_Neither ==
    /\ Ran
    /\ last.symbol = "NUM_IS_ODD"
    /\ run.args[1] = NumV(-1)
    /\ run.value = BoolV(FALSE)
    /\ OtherParityValue = BoolV(FALSE)
====
